---- MODULE Spec2Model ----
(***************************************************************************)
(* Signal-to-order execution pipeline of trading_consumer:                 *)
(*   TradingConsumer (main.py)          executor and dedup ledger          *)
(*   HyperliquidExchange (exchange.py)  adapter around the ccxt client     *)
(*   SymbolResolver (symbol_resolver.py)                                   *)
(* The ccxt client and the Telegram bot are the environment: every call to *)
(* them is a nondeterministic choice over the results they can give.       *)
(*                                                                         *)
(* Numbers.  Signal and market prices are integers counting ticks of       *)
(* 1/TicksPerUnit; prices computed by the executor (take-profit, stop-     *)
(* loss) are exact rationals <<numerator, denominator>> in ticks.  Python  *)
(* float rounding is not modelled.  None is 0 for numeric fields (the      *)
(* validators keep present prices > 0 and leverage >= 1, and the code      *)
(* tests them by truthiness) and the empty sequence for symbols.           *)
(* Symbols are sequences of characters so that upper() and startswith()    *)
(* are computed, not assumed.                                              *)
(*                                                                         *)
(* TradingSignal is taken to carry the trader_conviction value the parser  *)
(* passes to it (signal_parser.py:136-148).                                *)
(***************************************************************************)
EXTENDS Integers, Sequences, FiniteSets, TLC

\* ------------------------------------------------------------------ bounds
MaxDeliveries == 1
LedgerDeliveries == 3
MaxTime == 14
TickStep == 6
TicksPerUnit == 200

\* ------------------------------------------------------- program constants
DedupeWindow == 10
FillTimeout == 30
PositionPolls == 15
DefaultLeverage == 2
MaxAttempts == 3

None == 0
NoSymbol == <<>>

\* 0.01 absolute price tolerance (main.py:206) as a rational
PriceTolerance == <<1, 100>>
\* 5% order-type threshold (main.py:395) as a rational
LimitThreshold == <<5, 100>>
\* default_tp_percent = 0.05, default_sl_percent = 0.02 (models/config.py:74-75)
DefaultTpPercent == <<5, 100>>
DefaultSlPercent == <<2, 100>>

\* ---------------------------------------------------------------- numbers
Abs(x) == IF x < 0 THEN -x ELSE x

RECURSIVE GCD(_, _)
GCD(a, b) == IF b = 0 THEN a ELSE GCD(b, a % b)

\* normalised rational, denominator > 0
Rat(n, d) ==
    LET s == IF d < 0 THEN -1 ELSE 1
        g == GCD(Abs(n), Abs(d))
        h == IF g = 0 THEN 1 ELSE g
    IN  <<(s * n) \div h, (s * d) \div h>>

RInt(n) == <<n, 1>>
RAdd(a, b) == Rat(a[1] * b[2] + b[1] * a[2], a[2] * b[2])
RSub(a, b) == Rat(a[1] * b[2] - b[1] * a[2], a[2] * b[2])
RMul(a, b) == Rat(a[1] * b[1], a[2] * b[2])
RDiv(a, b) == Rat(a[1] * b[2], a[2] * b[1])
RAbs(a) == <<Abs(a[1]), a[2]>>
RLess(a, b) == a[1] * b[2] < b[1] * a[2]
RLeq(a, b) == a[1] * b[2] <= b[1] * a[2]
RPos(a) == a[1] > 0

\* ---------------------------------------------------------------- symbols
UpperChar(c) == IF c = "k" THEN "K" ELSE c
Upper(s) == [i \in 1..Len(s) |-> UpperChar(s[i])]
StartsWithK(s) == Len(s) > 0 /\ s[1] = "K"
KPrefixed(s) == <<"k">> \o s

ETH == <<"E", "T", "H">>
PEPE == <<"P", "E", "P", "E">>
KAS == <<"K", "A", "S">>

\* ------------------------------------------------------- symbol resolver
\* SymbolResolver.get_available_symbols: the base symbols of the perpetual
\* markets load_markets returned, or the empty set when the call failed.
GetAvailableSymbols(loaded, markets) == IF loaded THEN markets ELSE {}

\* The symbols kept in _available_symbols by an earlier call used again.
SymbolsRemembered(cache, fresh) ==
    IF cache.filled THEN cache.symbols ELSE fresh

\* symbol_resolver.py:78-79: the symbols a call of resolve_symbol works
\* with are those get_available_symbols has just returned; the field
\* _available_symbols is written (line 56) and never read.
SymbolsForCall(cache, fresh) == fresh

\* SymbolResolver.resolve_symbol, lines 81-99, on the symbols obtained
ResolveAgainst(symbol, available_symbols) ==
    IF symbol = NoSymbol THEN NoSymbol
    ELSE LET s == Upper(symbol)
             k_symbol == KPrefixed(s)
         IN  IF available_symbols = {} THEN s
             ELSE IF s \in available_symbols THEN s
             ELSE IF k_symbol \in available_symbols THEN k_symbol
             ELSE NoSymbol

\* the field _available_symbols: None after __init__ and set_exchange
NoCache == [filled |-> FALSE, symbols |-> {}]

\* SymbolResolver.resolve_symbol called on a resolver without a history
ResolveSymbol(symbol, loaded, markets) ==
    ResolveAgainst(symbol,
                   SymbolsForCall(NoCache, GetAvailableSymbols(loaded, markets)))

\* ------------------------------------------------- executor: pure parts
PriceScaleFactor == 1000

\* main.py:270-272, the test that decides whether prices are rescaled
NeedsScaling(original_symbol, resolved_symbol) ==
    /\ ~StartsWithK(Upper(original_symbol))
    /\ StartsWithK(Upper(resolved_symbol))
    /\ Upper(Tail(resolved_symbol)) = Upper(original_symbol)

ScalePrice(v) == IF v # None THEN v * PriceScaleFactor ELSE v

\* main.py:265-293, the signal after a successful resolution
ApplyResolution(sig, resolved_symbol) ==
    LET scaled == IF resolved_symbol # sig.symbol
                     /\ NeedsScaling(sig.symbol, resolved_symbol)
                  THEN [sig EXCEPT !.price = ScalePrice(sig.price),
                                   !.stop_loss = ScalePrice(sig.stop_loss),
                                   !.take_profit = ScalePrice(sig.take_profit)]
                  ELSE sig
    IN  [scaled EXCEPT !.symbol = resolved_symbol]

\* A difference of exactly 0.01 taken for a match.
PriceMatchInclusive(entry_price, price) ==
    \/ entry_price = None /\ price = None
    \/ /\ entry_price # None /\ price # None
       /\ RLeq(Rat(Abs(entry_price - price), TicksPerUnit), PriceTolerance)

\* main.py:203-207
PriceMatch(entry_price, price) ==
    \/ entry_price = None /\ price = None
    \/ /\ entry_price # None
       /\ price # None
       /\ RLess(Rat(Abs(entry_price - price), TicksPerUnit), PriceTolerance)

\* TradingConsumer._cleanup_old_trades
CleanupOldTrades(trades, t) ==
    LET cutoff_time == t - DedupeWindow
        Keep(trade) == trade.timestamp > cutoff_time
    IN  SelectSeq(trades, Keep)

\* TradingConsumer._is_duplicate_trade, on the ledger already cleaned up
IsDuplicateTrade(trades, sig) ==
    \E i \in 1..Len(trades) :
        /\ trades[i].symbol = sig.symbol
        /\ trades[i].signal_type = sig.signal_type
        /\ PriceMatch(trades[i].entry_price, sig.price)
        /\ trades[i].leverage = sig.leverage

\* The matching entries stamped again with the time of the rejection.
LedgerRefreshedOnDuplicate(trades, sig, t) ==
    [i \in 1..Len(trades) |->
        IF /\ trades[i].symbol = sig.symbol
           /\ trades[i].signal_type = sig.signal_type
           /\ PriceMatch(trades[i].entry_price, sig.price)
           /\ trades[i].leverage = sig.leverage
        THEN [trades[i] EXCEPT !.timestamp = t]
        ELSE trades[i]]

\* main.py:208-217, the ledger when a match is found: the match is logged
\* and True returned, no entry is written.
LedgerOnDuplicate(trades, sig, t) == trades

\* TradingConsumer._record_trade
RecordTrade(trades, sig, t) ==
    Append(trades, [symbol |-> sig.symbol, signal_type |-> sig.signal_type,
                    entry_price |-> sig.price, leverage |-> sig.leverage,
                    timestamp |-> t])

\* TradingConfig.get_position_size_for_conviction, in USD
PositionSizeForConviction(trader_conviction) ==
    IF trader_conviction = "" THEN 12
    ELSE IF trader_conviction \in {"low", "weak", "small", "light"} THEN 6
    ELSE IF trader_conviction \in {"medium", "med", "moderate", "normal"} THEN 12
    ELSE IF trader_conviction \in {"high", "strong", "large", "heavy", "confident"} THEN 24
    ELSE 12

\* main.py:328-334; the quantity in base units (rounding to 6 places is
\* not modelled)
PositionQuantity(sig, current_price) ==
    IF sig.quantity # None THEN RInt(sig.quantity)
    ELSE Rat(PositionSizeForConviction(sig.trader_conviction) * TicksPerUnit,
             current_price)

\* The signal's leverage ignored.
OrderLeverageDefault(sig) == DefaultLeverage

\* main.py:341
OrderLeverage(sig) == IF sig.leverage # None THEN sig.leverage ELSE DefaultLeverage

\* main.py:350
EntryPrice(sig, current_price) ==
    IF sig.price # None THEN RInt(sig.price) ELSE RInt(current_price)

ROne == RInt(1)
RTwo == RInt(2)

\* The SL-only distance measured from the entry price instead of the
\* market price.
BuyBracketsFromEntry(sig, current_price) ==
    LET entry_price == EntryPrice(sig, current_price)
    IN  IF sig.take_profit # None /\ sig.stop_loss # None
        THEN [tp |-> RInt(sig.take_profit), sl |-> RInt(sig.stop_loss),
              rule |-> "signal"]
        ELSE IF sig.stop_loss # None /\ sig.take_profit = None
        THEN LET sl_price == RInt(sig.stop_loss)
                 sl_percent == RDiv(RAbs(RSub(sl_price, entry_price)), entry_price)
                 tp_percent == RMul(sl_percent, RTwo)
             IN  [tp |-> RMul(entry_price, RAdd(ROne, tp_percent)), sl |-> sl_price,
                  rule |-> "sl_only"]
        ELSE IF sig.take_profit # None /\ sig.stop_loss = None
        THEN [tp |-> RInt(sig.take_profit),
              sl |-> RMul(entry_price, RSub(ROne, DefaultSlPercent)),
              rule |-> "tp_only"]
        ELSE [tp |-> RMul(entry_price, RAdd(ROne, DefaultTpPercent)),
              sl |-> RMul(entry_price, RSub(ROne, DefaultSlPercent)),
              rule |-> "default"]

\* main.py:353-374, take-profit and stop-loss of a BUY/LONG
BuyBrackets(sig, current_price) ==
    LET entry_price == EntryPrice(sig, current_price)
        m == RInt(current_price)
    IN  IF sig.take_profit # None /\ sig.stop_loss # None
        THEN [tp |-> RInt(sig.take_profit), sl |-> RInt(sig.stop_loss),
              rule |-> "signal"]
        ELSE IF sig.stop_loss # None /\ sig.take_profit = None
        THEN LET sl_price == RInt(sig.stop_loss)
                 sl_percent == RDiv(RAbs(RSub(sl_price, m)), m)
                 tp_percent == RMul(sl_percent, RTwo)
             IN  [tp |-> RMul(m, RAdd(ROne, tp_percent)), sl |-> sl_price,
                  rule |-> "sl_only"]
        ELSE IF sig.take_profit # None /\ sig.stop_loss = None
        THEN [tp |-> RInt(sig.take_profit),
              sl |-> RMul(entry_price, RSub(ROne, DefaultSlPercent)),
              rule |-> "tp_only"]
        ELSE [tp |-> RMul(entry_price, RAdd(ROne, DefaultTpPercent)),
              sl |-> RMul(entry_price, RSub(ROne, DefaultSlPercent)),
              rule |-> "default"]

\* The defaults of a SELL computed off the market price instead of the
\* entry price.
SellBracketsFromMarket(sig, current_price) ==
    LET m == RInt(current_price)
    IN  IF sig.take_profit # None /\ sig.stop_loss # None
        THEN [tp |-> RInt(sig.take_profit), sl |-> RInt(sig.stop_loss),
              rule |-> "signal"]
        ELSE IF sig.stop_loss # None /\ sig.take_profit = None
        THEN LET sl_price == RInt(sig.stop_loss)
                 sl_percent == RDiv(RAbs(RSub(sl_price, m)), m)
                 tp_percent == RMul(sl_percent, RTwo)
             IN  [tp |-> RMul(m, RSub(ROne, tp_percent)), sl |-> sl_price,
                  rule |-> "sl_only"]
        ELSE IF sig.take_profit # None /\ sig.stop_loss = None
        THEN [tp |-> RInt(sig.take_profit),
              sl |-> RMul(m, RAdd(ROne, DefaultSlPercent)),
              rule |-> "tp_only"]
        ELSE [tp |-> RMul(m, RSub(ROne, DefaultTpPercent)),
              sl |-> RMul(m, RAdd(ROne, DefaultSlPercent)),
              rule |-> "default"]

\* main.py:538-559, take-profit and stop-loss of a SELL/SHORT
SellBrackets(sig, current_price) ==
    LET entry_price == EntryPrice(sig, current_price)
        m == RInt(current_price)
    IN  IF sig.take_profit # None /\ sig.stop_loss # None
        THEN [tp |-> RInt(sig.take_profit), sl |-> RInt(sig.stop_loss),
              rule |-> "signal"]
        ELSE IF sig.stop_loss # None /\ sig.take_profit = None
        THEN LET sl_price == RInt(sig.stop_loss)
                 sl_percent == RDiv(RAbs(RSub(sl_price, m)), m)
                 tp_percent == RMul(sl_percent, RTwo)
             IN  [tp |-> RMul(m, RSub(ROne, tp_percent)), sl |-> sl_price,
                  rule |-> "sl_only"]
        ELSE IF sig.take_profit # None /\ sig.stop_loss = None
        THEN [tp |-> RInt(sig.take_profit),
              sl |-> RMul(entry_price, RAdd(ROne, DefaultSlPercent)),
              rule |-> "tp_only"]
        ELSE [tp |-> RMul(entry_price, RSub(ROne, DefaultTpPercent)),
              sl |-> RMul(entry_price, RAdd(ROne, DefaultSlPercent)),
              rule |-> "default"]

\* The comparison made strict: a difference of exactly 5% gets a LIMIT.
UseLimitOrderStrict(sig, current_price) ==
    IF sig.price # None
    THEN LET signal_price == RInt(sig.price)
             price_diff_pct ==
                 RDiv(RAbs(RSub(RInt(current_price), signal_price)), signal_price)
         IN  ~RLess(price_diff_pct, LimitThreshold)
    ELSE FALSE

\* main.py:391-410 and 576-595: TRUE for a LIMIT order at the signal price
UseLimitOrder(sig, current_price) ==
    IF sig.price # None
    THEN LET signal_price == RInt(sig.price)
             price_diff_pct ==
                 RDiv(RAbs(RSub(RInt(current_price), signal_price)), signal_price)
         IN  ~RLeq(price_diff_pct, LimitThreshold)
    ELSE FALSE

\* ------------------------------------------------------------------ state
VARIABLES
    now,            \* datetime.now(), minutes
    recent_trades,  \* TradingConsumer._recent_trades
    pc,             \* position of the executor in the current delivery
    signal,         \* the TradingSignal being executed (mutated in place)
    exec,           \* locals of _execute_buy_signal / _execute_sell_signal
    adp,            \* locals of the adapter call in progress
    submitted,      \* orders handed to the exchange in this delivery
    events,         \* what has happened in this delivery
    deliveries,     \* number of deliveries started
    delivered,      \* the signal of this delivery as the parser produced it
    accepted,       \* deliveries that were recorded: raw signal, time, number
    rejected,       \* deliveries that were rejected as duplicates
    probe,          \* a direct call of resolve_symbol: arguments and result
    running,        \* TradingConsumer._running
    config,         \* the configuration loaded at start-up
    mapper,         \* the SymbolMapper: its two dicts, and one round trip
    notified,       \* the terminal notifications sent for the signal in hand
    callback        \* TelegramClient: the message in hand and its callback

vars == <<now, recent_trades, pc, signal, exec, adp, submitted, events,
          deliveries, delivered, accepted, rejected, probe, running, config,
          mapper, notified, callback>>

\* ---------------------------------------------------------- symbol mapper
\* a dict as the set of its <<key, value>> pairs
DictGet(d, key, default) ==
    IF \E item \in d : item[1] = key
    THEN (CHOOSE item \in d : item[1] = key)[2]
    ELSE default

DictPut(d, key, value) == {item \in d : item[1] # key} \cup {<<key, value>>}

DictKeys(d) == {item[1] : item \in d}

SHIB == <<"S", "H", "I", "B">>

\* SymbolMapper.__init__, lines 16-27 (two of the seven kilo tokens)
HyperliquidMappings ==
    {<<<<"P", "E", "P", "E">>, <<"k", "P", "E", "P", "E">>>>,
     <<SHIB, <<"k">> \o SHIB>>}

\* SymbolMapper.__init__, line 30
HyperliquidReverse(mappings) == {<<item[2], item[1]>> : item \in mappings}

NoMapper == [hyperliquid_mappings |-> HyperliquidMappings,
             hyperliquid_reverse |-> HyperliquidReverse(HyperliquidMappings),
             added |-> 0, symbol |-> <<>>, mapped |-> <<>>, back |-> <<>>]

\* the defaults of HyperliquidConfig.vault_address (None) and
\* TradingConfig.max_leverage
DefaultMaxLeverage == 10
DefaultConfig == [vault_address |-> FALSE, max_leverage |-> DefaultMaxLeverage]

NoSignal == [signal_type |-> "none", symbol |-> NoSymbol, price |-> None,
             stop_loss |-> None, take_profit |-> None, leverage |-> None,
             quantity |-> None, trader_conviction |-> "",
             needs_resolution |-> FALSE]

\* no Telegram message in hand
NoCallback == [messages |-> 0, state |-> "idle", kind |-> "none",
               sig |-> NoSignal, attempt |-> 0, executions |-> 0, caught |-> 0]

NoExec == [current_price |-> None, quantity |-> RInt(0), leverage |-> None,
           tp_price |-> RInt(0), sl_price |-> RInt(0), rule |-> "none",
           order_type |-> "none", order_price |-> None, side |-> "none",
           status |-> "none"]

\* no direct call of resolve_symbol is being looked at
NoProbe == [symbol |-> NoSymbol, loaded |-> FALSE, markets |-> {},
            called |-> FALSE, result |-> NoSymbol, calls |-> 0,
            previous |-> NoSymbol, available_symbols |-> NoCache]

NoAdp == [attempt |-> 0, fallbacks |-> 0, polls |-> 0, sleeps |-> 0,
          clean |-> TRUE, result |-> "none",
          position_found |-> FALSE, position_size |-> 0,
          position_side |-> "none", confirmed_side |-> "none",
          filled_seen |-> FALSE, position_seen |-> FALSE, contracts |-> 0,
          orders |-> 0, open_orders |-> 0,
          cancel_attempted |-> {}, cancel_failed |-> {},
          primary_failed |-> {}, returned |-> <<>>, polled_stopped |-> 0,
          entries_accepted |-> 0]

Init ==
    /\ now = 0
    /\ recent_trades = <<>>
    /\ pc = "idle"
    /\ signal = NoSignal
    /\ exec = NoExec
    /\ adp = NoAdp
    /\ submitted = <<>>
    /\ events = {}
    /\ deliveries = 0
    /\ delivered = NoSignal
    /\ accepted = {}
    /\ rejected = {}
    /\ mapper = NoMapper
    /\ notified = <<>>
    /\ callback = NoCallback
    /\ running = TRUE
    /\ config = DefaultConfig
    /\ probe = NoProbe

\* ------------------------------------------------------------ environment
\* Time passes between deliveries.
Tick ==
    /\ pc = "idle"
    /\ now + TickStep <= MaxTime
    /\ now' = now + TickStep
    /\ UNCHANGED <<callback, notified, mapper, running, config, probe, rejected, recent_trades, pc, signal, exec, adp, submitted, events,
                   deliveries, delivered, accepted>>

\* the listings load_markets can return
ListingChoices == {{ETH, KPrefixed(PEPE), KPrefixed(KAS)}, {ETH}}

\* -------------------------------------------------------- exception flow
\* Where an exception raised inside the try block of a function goes:
\* _execute_signal (main.py:308), _execute_buy_signal (494),
\* _execute_sell_signal (679), _execute_close_signal (716).
ExceptionTarget(frame) ==
    CASE frame = "execute_signal" -> "outer_except"
      [] frame = "buy" -> "inner_except"
      [] frame = "sell" -> "inner_except"
      [] frame = "close" -> "close_except"

\* --------------------------------------------------------------- executor
\* _execute_signal, lines 233-243: the log line and the "signal received"
\* notification.  _notify_owner_signal_received swallows every failure of
\* the send; a failure while formatting the log line is raised inside the
\* try block.
ExecuteSignal(sig, max_deliveries) ==
    /\ pc = "idle"
    /\ deliveries < max_deliveries
    /\ deliveries' = deliveries + 1
    /\ signal' = sig
    /\ delivered' = sig
    /\ exec' = NoExec
    /\ adp' = NoAdp
    /\ submitted' = <<>>
    /\ \E raised \in BOOLEAN :
          IF raised
          THEN /\ pc' = ExceptionTarget("execute_signal")
               /\ events' = {}
          ELSE /\ pc' = "dup_check"
               /\ events' = {"received"}
    /\ UNCHANGED <<callback, notified, mapper, running, config, probe, rejected, now, recent_trades, accepted>>

\* A duplicate that is executed all the same.
DuplicateGoesOn(needs_resolution) ==
    IF needs_resolution THEN "resolve" ELSE "record"

\* main.py:246-248: a duplicate is logged and _execute_signal returns
DuplicateTarget(needs_resolution) == "done"

\* _execute_signal, lines 245-248: _is_duplicate_trade purges the ledger
\* and scans it.
DuplicateCheck ==
    /\ pc = "dup_check"
    /\ LET cleaned == CleanupOldTrades(recent_trades, now)
       IN  /\ recent_trades' = IF IsDuplicateTrade(cleaned, signal)
                               THEN LedgerOnDuplicate(cleaned, signal, now)
                               ELSE cleaned
           /\ IF IsDuplicateTrade(cleaned, signal)
              THEN /\ pc' = DuplicateTarget(signal.needs_resolution)
                   /\ events' = events \cup {"dup_rejected"}
                   /\ rejected' = rejected \cup
                         {[sig |-> delivered, timestamp |-> now, n |-> deliveries]}
              ELSE /\ pc' = IF signal.needs_resolution THEN "resolve" ELSE "record"
                   /\ events' = events \cup {"dup_passed"}
                   /\ rejected' = rejected
    /\ UNCHANGED <<callback, notified, mapper, running, config, probe, now, signal, exec, adp, submitted, deliveries, delivered,
                   accepted>>

\* The test left out: execution goes on whatever the resolver returned.
ResolutionNeverFailed(resolved_symbol) == FALSE

\* main.py:258, the test for a failed resolution
ResolutionFailed(resolved_symbol) == resolved_symbol = NoSymbol

\* _execute_signal, lines 250-293: resolve_symbol_for_trading, failure
\* notification, rescaling.  "resolver_none" notes that the resolver
\* returned None.
Resolve ==
    /\ pc = "resolve"
    /\ \E loaded \in BOOLEAN, markets \in ListingChoices :
          LET resolved_symbol == ResolveSymbol(signal.symbol, loaded, markets)
              returned == IF resolved_symbol = NoSymbol
                          THEN {"resolve", "resolver_none"} ELSE {"resolve"}
          IN  IF ResolutionFailed(resolved_symbol)
              THEN /\ pc' = "done"
                   /\ events' = events \cup returned \cup {"notify_failed"}
                   /\ signal' = signal
                   /\ notified' = Append(notified, "trade_failed")
              ELSE /\ pc' = "record"
                   /\ notified' = notified
                   /\ events' = events \cup returned
                             \cup (IF resolved_symbol # signal.symbol
                                      /\ NeedsScaling(signal.symbol, resolved_symbol)
                                   THEN {"rescaled"} ELSE {})
                   /\ signal' = ApplyResolution(signal, resolved_symbol)
    /\ UNCHANGED <<callback, mapper, running, config, probe, rejected, now, recent_trades, exec, adp, submitted, deliveries,
                   delivered, accepted>>

\* main.py:299-306, the entry point of the path taken for a signal type
Dispatch(signal_type) ==
    IF signal_type \in {"buy", "long"} THEN "buy_ticker"
    ELSE IF signal_type \in {"sell", "short"} THEN "sell_ticker"
    ELSE IF signal_type = "close" THEN "close_positions"
    ELSE "done"

\* _execute_signal, lines 295-306: _record_trade, then dispatch by type.
Record ==
    /\ pc = "record"
    /\ recent_trades' = RecordTrade(recent_trades, signal, now)
    /\ accepted' = accepted \cup
          {[sig |-> delivered, timestamp |-> now, n |-> deliveries]}
    /\ events' = events \cup {"recorded"}
    /\ pc' = Dispatch(signal.signal_type)
    /\ exec' = [exec EXCEPT !.side =
                  IF signal.signal_type \in {"buy", "long"} THEN "buy"
                  ELSE IF signal.signal_type \in {"sell", "short"} THEN "sell"
                  ELSE "none"]
    /\ UNCHANGED <<callback, notified, mapper, running, config, probe, rejected, now, signal, adp, submitted, deliveries, delivered>>

\* ------------------------------------------------- buy / sell execution
\* mid prices fetch_ticker can report, in ticks
MarketPrices == {20}
PricingMarketPrices == {19, 20, 21, 22}

\* What get_ticker can see: fetch_ticker failed (ok = FALSE), a ticker
\* without info.midPx (mid = None), or a ticker with a mid price.
TickerReports(prices) ==
    {[ok |-> FALSE, mid |-> None], [ok |-> TRUE, mid |-> None]}
    \cup {[ok |-> TRUE, mid |-> m] : m \in prices}

\* _execute_buy_signal lines 318-334, _execute_sell_signal lines 503-519:
\* get_ticker and position sizing.  get_ticker returns None when
\* fetch_ticker fails; a ticker without a mid price makes float() raise.
GetTicker(prices) ==
    /\ pc \in {"buy_ticker", "sell_ticker"}
    /\ \E ticker \in TickerReports(prices) :
          IF ~ticker.ok
          THEN /\ pc' = "done"
               /\ events' = events \cup {"get_ticker", "ticker_failed"}
               /\ exec' = exec
          ELSE IF ticker.mid = None
          THEN /\ pc' = ExceptionTarget(exec.side)
               /\ events' = events \cup {"get_ticker"}
               /\ exec' = exec
          ELSE /\ pc' = "set_leverage"
               /\ events' = events \cup {"get_ticker"}
               /\ exec' = [exec EXCEPT
                     !.current_price = ticker.mid,
                     !.quantity = PositionQuantity(signal, ticker.mid)]
    /\ UNCHANGED <<callback, notified, mapper, running, config, probe, rejected, now, recent_trades, signal, adp, submitted, deliveries,
                   delivered, accepted>>

Brackets(side, sig, current_price) ==
    IF side = "buy" THEN BuyBrackets(sig, current_price)
    ELSE SellBrackets(sig, current_price)

\* lines 340-410 (buy), 525-595 (sell): set_leverage, then the bracket
\* prices and the order type.  HyperliquidExchange.set_leverage returns
\* False when set_margin_mode raises.
SetLeverage ==
    /\ pc = "set_leverage"
    /\ LET leverage == OrderLeverage(signal)
           b == Brackets(exec.side, signal, exec.current_price)
           use_limit_order == UseLimitOrder(signal, exec.current_price)
       IN  \E leverage_set \in BOOLEAN :
              IF ~leverage_set
              THEN /\ pc' = "done"
                   /\ events' = events \cup {"set_leverage", "leverage_failed"}
                   /\ exec' = [exec EXCEPT !.leverage = leverage]
                   /\ adp' = adp
              ELSE /\ pc' = "create_order"
                   /\ events' = events \cup {"set_leverage"}
                   /\ exec' = [exec EXCEPT
                         !.leverage = leverage,
                         !.tp_price = b.tp, !.sl_price = b.sl, !.rule = b.rule,
                         !.order_type = IF use_limit_order THEN "limit" ELSE "market",
                         !.order_price = IF use_limit_order THEN signal.price ELSE None]
                   /\ adp' = [NoAdp EXCEPT !.attempt = 1]
    /\ UNCHANGED <<callback, notified, mapper, running, config, probe, rejected, now, recent_trades, signal, submitted, deliveries,
                   delivered, accepted>>

\* ---------------------------------------------- adapter: create_order
CcxtStatuses == {"open", "closed", "canceled", "cancelled", "rejected",
                 "expired", "unknown"}

\* HyperliquidExchange._map_order_status
MapOrderStatus(ccxt_status) ==
    CASE ccxt_status = "open" -> "OPEN"
      [] ccxt_status = "closed" -> "FILLED"
      [] ccxt_status = "canceled" -> "CANCELLED"
      [] ccxt_status = "cancelled" -> "CANCELLED"
      [] ccxt_status = "rejected" -> "REJECTED"
      [] ccxt_status = "expired" -> "CANCELLED"
      [] OTHER -> "PENDING"

\* exchange.py:133-139, the ccxt side of a TradeOrder
OrderSide(side) == IF side \in {"buy", "long"} THEN "buy"
                   ELSE IF side \in {"sell", "short"} THEN "sell" ELSE "buy"

\* exchange.py:212-214: the fallback applies to market orders whose error
\* message says the order could not be matched
FallbackApplies(order_type, no_match) == order_type = "market" /\ no_match

\* One attempt more than stop_after_attempt allows.
RetryOnceMore(attempt) == attempt <= MaxAttempts

\* tenacity stop_after_attempt(3), exchange.py:108-111
RetryAgain(attempt) == attempt < MaxAttempts

EntryOrder ==
    [kind |-> "entry", type |-> exec.order_type, side |-> OrderSide(exec.side),
     amount |-> exec.quantity, reduce_only |-> FALSE]

FallbackOrder ==
    [kind |-> "fallback", type |-> "limit_ioc", side |-> OrderSide(exec.side),
     amount |-> exec.quantity, reduce_only |-> FALSE]

\* what happens when an attempt of create_order ends by raising
\* (took: the entry orders the exchange accepted during the attempt)
CreateOrderRaise(subs, fb, took) ==
    /\ submitted' = subs
    /\ exec' = [exec EXCEPT !.status = "REJECTED"]
    /\ events' = events \cup {"create_order"}
    /\ IF RetryAgain(adp.attempt)
       THEN /\ pc' = "create_order"
            /\ adp' = [adp EXCEPT !.attempt = @ + 1, !.fallbacks = @ + fb,
                                  !.entries_accepted = @ + took]
       ELSE /\ pc' = ExceptionTarget(exec.side)
            /\ adp' = [adp EXCEPT !.fallbacks = @ + fb,
                                  !.entries_accepted = @ + took]

\* what happens when an attempt of create_order returns the order
CreateOrderReturn(subs, fb, ccxt_status) ==
    /\ submitted' = subs
    /\ exec' = [exec EXCEPT !.status = MapOrderStatus(ccxt_status)]
    /\ events' = events \cup {"create_order"}
    /\ pc' = "order_created"
    /\ adp' = [adp EXCEPT !.fallbacks = @ + fb, !.entries_accepted = @ + 1]

\* TradeOrder.validate_symbol (models/trading.py:92-96): the symbol of the
\* order built at main.py:416-437
OrderSymbol(symbol) == Upper(symbol)

\* One attempt of HyperliquidExchange.create_order (exchange.py:112-272):
\* load_markets and the look-up of the order's symbol in the markets (a
\* KeyError for a symbol the upper-casing has changed), the submission,
\* the fallback LIMIT IOC submission when a market order could not be
\* matched, REJECTED and re-raise otherwise.  A submission that ends in an
\* error other than "could not match" (a timeout, a dropped connection)
\* may or may not have reached the exchange: took is what the exchange
\* accepted of it.
CreateOrderAttempt ==
    /\ pc = "create_order"
    /\ \E outcome \in {"load_error", "ok", "no_match", "error"},
          ccxt_status \in CcxtStatuses, fallback_ok \in BOOLEAN, took \in {0, 1} :
          IF outcome = "load_error" \/ OrderSymbol(signal.symbol) # signal.symbol
          THEN CreateOrderRaise(submitted, 0, 0)
          ELSE IF outcome = "ok"
          THEN CreateOrderReturn(Append(submitted, EntryOrder), 0, ccxt_status)
          ELSE IF outcome = "error"
          THEN CreateOrderRaise(Append(submitted, EntryOrder), 0, took)
          ELSE IF FallbackApplies(exec.order_type, TRUE)
          THEN IF fallback_ok
               THEN CreateOrderReturn(
                      Append(Append(submitted, EntryOrder), FallbackOrder),
                      1, ccxt_status)
               ELSE CreateOrderRaise(
                      Append(Append(submitted, EntryOrder), FallbackOrder), 1, took)
          ELSE CreateOrderRaise(Append(submitted, EntryOrder), 0, 0)
    /\ UNCHANGED <<callback, notified, mapper, running, config, probe, rejected, now, recent_trades, signal, deliveries, delivered, accepted>>

\* lines 442-459 (buy), 627-644 (sell): an order that is not FILLED is
\* waited for, a FILLED one goes straight to the brackets.
AfterOrder ==
    /\ pc = "order_created"
    /\ pc' = IF exec.status # "FILLED" THEN "wait_fill" ELSE "create_tp_sl"
    /\ events' = events \cup (IF exec.status # "FILLED" THEN {"wait_fill"}
                              ELSE {"already_filled"})
    /\ adp' = NoAdp
    /\ submitted' = <<>>
    /\ UNCHANGED <<callback, notified, mapper, running, config, probe, rejected, now, recent_trades, signal, exec, deliveries, delivered,
                   accepted>>

\* ------------------------------------------ adapter: wait_for_order_fill
\* what fetch_positions can answer for one symbol
PositionReports == {"error", "none", "zero", "long", "short"}
PositionSizes == {2, 3}

\* HyperliquidExchange.get_order_status: a failing fetch_order is reported
\* as REJECTED
GetOrderStatus(fetched) ==
    IF fetched = "fetch_error" THEN "REJECTED" ELSE MapOrderStatus(fetched)

\* One iteration too many.
WaitLoopOneMore(polls, timeout_seconds) == polls <= timeout_seconds

\* exchange.py:278, for attempt in range(timeout_seconds)
WaitLoopContinues(polls, timeout_seconds) == polls < timeout_seconds

\* A position entry with zero contracts taken for a position.
PositionDetectedAnySize(report) == report \in {"zero", "long", "short"}

\* exchange.py:299 and 580: only a position with contracts != 0 counts
PositionDetected(report) == report \in {"long", "short"}

\* the polls a loop has made with _running false, counted up to two
PolledStopped(count) == IF running THEN count ELSE IF count < 2 THEN count + 1 ELSE 2

\* The account whose positions the adapter's own reads ask for
\* (exchange.py:291-296, 335-341, 484-486): the vault when one is
\* configured, the wallet otherwise.  The event notes the read.
PositionsAccount(cfg) ==
    IF cfg.vault_address THEN "positions_of_vault" ELSE "positions_of_wallet"

\* HyperliquidExchange.get_positions (exchange.py:569): always the wallet
GetPositionsAccount(cfg) == "positions_of_wallet"

\* One iteration of the loop of wait_for_order_fill (exchange.py:278-308).
\* Neither this loop nor the one of create_tp_sl_orders reads _running;
\* adp.polled_stopped notes the polls made after it was set to false.
\* "raise" is get_order_status raising (it can only do so before its own
\* try block); adp.clean records that every answer so far was a status
\* other than FILLED/CANCELLED/REJECTED together with no position.
WaitPoll ==
    /\ pc = "wait_fill"
    /\ WaitLoopContinues(adp.polls, FillTimeout)
    /\ \E fetched \in CcxtStatuses \cup {"fetch_error", "raise"},
          report \in PositionReports :
          LET seen == [adp EXCEPT
                         !.polls = @ + 1,
                         !.polled_stopped = PolledStopped(@),
                         !.position_seen = @ \/ report \in {"long", "short"},
                         !.filled_seen = @ \/ GetOrderStatus(fetched) = "FILLED"]
          IN  IF fetched = "raise"
              THEN /\ adp' = [seen EXCEPT !.sleeps = @ + 1, !.clean = FALSE]
                   /\ pc' = pc
                   /\ events' = events
              ELSE LET order_status == GetOrderStatus(fetched)
                   IN  IF order_status = "FILLED"
                       THEN /\ adp' = [seen EXCEPT !.clean = FALSE, !.result = "true"]
                            /\ pc' = "wait_done"
                            /\ events' = events
                       ELSE IF order_status \in {"CANCELLED", "REJECTED"}
                       THEN /\ adp' = [seen EXCEPT !.clean = FALSE, !.result = "false"]
                            /\ pc' = "wait_done"
                            /\ events' = events
                       ELSE IF PositionDetected(report)
                       THEN /\ adp' = [seen EXCEPT !.clean = FALSE, !.result = "true"]
                            /\ pc' = "wait_done"
                            /\ events' = events \cup {PositionsAccount(config)}
                       ELSE /\ adp' = [seen EXCEPT !.sleeps = @ + 1]
                            /\ pc' = pc
                            /\ events' = events \cup {PositionsAccount(config)}
    /\ UNCHANGED <<callback, notified, mapper, running, config, probe, rejected, now, recent_trades, signal, exec, submitted,
                   deliveries, delivered, accepted>>

\* exchange.py:310-311, the loop is exhausted
WaitTimeout ==
    /\ pc = "wait_fill"
    /\ ~WaitLoopContinues(adp.polls, FillTimeout)
    /\ adp' = [adp EXCEPT !.result = "false"]
    /\ pc' = "wait_done"
    /\ UNCHANGED <<callback, notified, mapper, running, config, probe, rejected, now, recent_trades, signal, exec, submitted, events,
                   deliveries, delivered, accepted>>

\* The result of the wait not looked at.
OrderFilledAssumed(result) == TRUE

\* main.py:452 and 637, `if not order_filled`
OrderFilled(result) == result = "true"

\* The return after the failure notification left out.
TimeoutFallsThrough == "create_tp_sl"

\* main.py:455 and 640, the return that follows the failure notification
TimeoutTarget == "done"

\* lines 452-459 (buy), 637-644 (sell): an unfilled order ends the signal
\* with a failure notification.  "wait_false" notes that the wait returned
\* false, "status_filled" that a poll had the order status FILLED.
AfterWait ==
    /\ pc = "wait_done"
    /\ LET returned == (IF adp.result = "false" THEN {"wait_false"} ELSE {})
                        \cup (IF adp.filled_seen THEN {"status_filled"} ELSE {})
       IN  IF ~OrderFilled(adp.result)
           THEN /\ pc' = TimeoutTarget
                /\ events' = events \cup returned
                                    \cup {"fill_timeout", "notify_failed"}
                /\ notified' = Append(notified, "trade_failed")
           ELSE /\ pc' = "create_tp_sl"
                /\ events' = events \cup returned \cup {"filled"}
                /\ notified' = notified
    /\ adp' = NoAdp
    /\ UNCHANGED <<callback, mapper, running, config, probe, rejected, now, recent_trades, signal, exec, submitted, deliveries,
                   delivered, accepted>>

\* ------------------------------------------ adapter: create_tp_sl_orders
\* exchange.py:332, for attempt in range(15)
PositionLoopContinues(polls) == polls < PositionPolls

\* exchange.py:397-401, the side of the closing orders
CloseSide(position_side) == IF position_side = "short" THEN "buy" ELSE "sell"

\* `if tp_price:` / `if sl_price:` (exchange.py:404, 434)
Truthy(r) == r[1] # 0

\* One iteration of the position-confirmation loop (exchange.py:332-363).
TpSlPoll ==
    /\ pc = "create_tp_sl"
    /\ PositionLoopContinues(adp.polls)
    /\ \E report \in PositionReports, size \in PositionSizes :
          IF PositionDetected(report)
          THEN /\ adp' = [adp EXCEPT !.polls = @ + 1,
                                     !.polled_stopped = PolledStopped(@),
                                     !.position_found = TRUE,
                                     !.position_size = size,
                                     !.position_side = report,
                                     !.confirmed_side = report]
               /\ pc' = "tp_sl_place"
          ELSE /\ adp' = [adp EXCEPT !.polls = @ + 1, !.sleeps = @ + 1,
                                     !.polled_stopped = PolledStopped(@)]
               /\ pc' = pc
    /\ events' = events \cup {"create_tp_sl", PositionsAccount(config)}
    /\ UNCHANGED <<callback, notified, mapper, running, config, probe, rejected, now, recent_trades, signal, exec, submitted, deliveries,
                   delivered, accepted>>

\* exchange.py:365-391: after 15 fruitless polls, one lookup across all
\* positions (get_positions returns [] on failure); ValueError when the
\* symbol is not among them.  The lookup does not set position_side;
\* confirmed_side notes the side of the Position it matched (pos.side,
\* exchange.py:586).
TpSlFinalLookup ==
    /\ pc = "create_tp_sl"
    /\ ~PositionLoopContinues(adp.polls)
    /\ \E found \in BOOLEAN, size \in PositionSizes, side \in {"long", "short"} :
          IF found
          THEN /\ adp' = [adp EXCEPT !.position_found = TRUE,
                                     !.position_size = size,
                                     !.confirmed_side = side]
               /\ pc' = "tp_sl_place"
          ELSE /\ adp' = adp
               /\ pc' = ExceptionTarget(exec.side)
    /\ events' = events \cup {GetPositionsAccount(config)}
    /\ UNCHANGED <<callback, notified, mapper, running, config, probe, rejected, now, recent_trades, signal, exec, submitted,
                   deliveries, delivered, accepted>>

\* The brackets sized by the quantity asked for in the entry order.
BracketOrderAsRequested(kind, type) ==
    [kind |-> kind, type |-> type, side |-> CloseSide(adp.position_side),
     amount |-> exec.quantity, reduce_only |-> TRUE]

\* exchange.py:406-415, 436-445: side=close_side, amount=position_size,
\* reduceOnly
BracketOrder(kind, type) ==
    [kind |-> kind, type |-> type, side |-> CloseSide(adp.position_side),
     amount |-> RInt(adp.position_size), reduce_only |-> TRUE]

\* The secondary shape submitted whether or not the primary went through.
LegSubmissionsBothShapes(kind, price, primary_ok, secondary_type) ==
    IF ~Truthy(price) THEN <<>>
    ELSE <<BracketOrder(kind, "market_trigger"), BracketOrder(kind, secondary_type)>>

\* the submissions of one bracket leg: primary shape, then the secondary
\* shape when the primary failed (exchange.py:404-431, 434-461)
LegSubmissions(kind, price, primary_ok, secondary_type) ==
    IF ~Truthy(price) THEN <<>>
    ELSE IF primary_ok THEN <<BracketOrder(kind, "market_trigger")>>
    ELSE <<BracketOrder(kind, "market_trigger"), BracketOrder(kind, secondary_type)>>

LegCreated(price, primary_ok, secondary_ok) ==
    IF ~Truthy(price) THEN 0
    ELSE IF primary_ok \/ secondary_ok THEN 1 ELSE 0

\* what one leg appends to the list `orders` that is returned
LegReturned(kind, price, primary_ok, secondary_ok) ==
    IF LegCreated(price, primary_ok, secondary_ok) = 1 THEN <<kind>> ELSE <<>>

\* the leg whose primary submission was made and failed
LegPrimaryFailed(kind, price, primary_ok) ==
    IF Truthy(price) /\ ~primary_ok THEN {kind} ELSE {}

\* exchange.py:393-467: load_markets, then the TP and the SL order.
TpSlPlace ==
    /\ pc = "tp_sl_place"
    /\ \E loaded \in BOOLEAN, tp_ok \in BOOLEAN, tp_alt_ok \in BOOLEAN,
          sl_ok \in BOOLEAN, sl_alt_ok \in BOOLEAN :
          IF ~loaded
          THEN /\ pc' = ExceptionTarget(exec.side)
               /\ UNCHANGED <<callback, notified, mapper, running, config, adp, submitted>>
          ELSE /\ pc' = "tp_sl_done"
               /\ submitted' =
                     LegSubmissions("tp", exec.tp_price, tp_ok, "limit")
                     \o LegSubmissions("sl", exec.sl_price, sl_ok, "stop_market")
               /\ adp' = [adp EXCEPT !.polls = 0, !.sleeps = 0, !.orders =
                     LegCreated(exec.tp_price, tp_ok, tp_alt_ok)
                     + LegCreated(exec.sl_price, sl_ok, sl_alt_ok),
                     !.returned =
                         LegReturned("tp", exec.tp_price, tp_ok, tp_alt_ok)
                         \o LegReturned("sl", exec.sl_price, sl_ok, sl_alt_ok),
                     !.primary_failed =
                         LegPrimaryFailed("tp", exec.tp_price, tp_ok)
                         \cup LegPrimaryFailed("sl", exec.sl_price, sl_ok)]
    /\ UNCHANGED <<callback, notified, mapper, running, config, probe, rejected, now, recent_trades, signal, exec, events, deliveries,
                   delivered, accepted>>

\* lines 470-488 (buy), 655-673 (sell): the success notification, whatever
\* create_tp_sl_orders returned
NotifySuccess ==
    /\ pc = "tp_sl_done"
    /\ pc' = "done"
    /\ events' = events \cup {"notify_success"}
             \cup (IF adp.orders = 0 THEN {"no_brackets"} ELSE {})
    /\ notified' = Append(notified, "trade_executed")
    /\ adp' = NoAdp
    /\ submitted' = <<>>
    /\ UNCHANGED <<callback, mapper, running, config, probe, rejected, now, recent_trades, signal, exec, deliveries, delivered,
                   accepted>>

\* ---------------------------------------------------- exception handlers
\* A handler that lets an exception out of _execute_signal
NotifyOwnerTradeFailedRaises(send_ok) ==
    IF send_ok THEN "returned" ELSE "raised"

\* _notify_owner_trade_failed (main.py:760-800): the send, and the second
\* send after a failure, are both inside try/except Exception
NotifyOwnerTradeFailed(send_ok) == "returned"

\* where a handler that calls _notify_owner_trade_failed ends
AfterNotify(send_ok) ==
    IF NotifyOwnerTradeFailed(send_ok) = "returned" THEN "done" ELSE "escaped"

\* main.py:494-496 and 679-681
InnerExcept ==
    /\ pc = "inner_except"
    /\ \E send_ok \in BOOLEAN : pc' = AfterNotify(send_ok)
    /\ events' = events \cup {"inner_except", "notify_failed"}
    /\ notified' = Append(notified, "trade_failed")
    /\ adp' = NoAdp
    /\ submitted' = <<>>
    /\ UNCHANGED <<callback, mapper, running, config, probe, rejected, now, recent_trades, signal, exec, deliveries, delivered,
                   accepted>>

\* main.py:308-311
OuterExcept ==
    /\ pc = "outer_except"
    /\ \E send_ok \in BOOLEAN : pc' = AfterNotify(send_ok)
    /\ events' = events \cup {"outer_except", "notify_failed"}
    /\ notified' = Append(notified, "trade_failed")
    /\ UNCHANGED <<callback, mapper, running, config, probe, rejected, now, recent_trades, signal, exec, adp, submitted,
                   deliveries, delivered, accepted>>

\* main.py:716-717
CloseExcept ==
    /\ pc = "close_except"
    /\ pc' = "done"
    /\ events' = events \cup {"close_except"}
    /\ adp' = NoAdp
    /\ submitted' = <<>>
    /\ UNCHANGED <<callback, notified, mapper, running, config, probe, rejected, now, recent_trades, signal, exec, deliveries, delivered,
                   accepted>>

\* _execute_signal has returned; _handle_message returns and the next
\* update can be processed
Finish ==
    /\ pc = "done"
    /\ pc' = "idle"
    /\ signal' = NoSignal
    /\ delivered' = NoSignal
    /\ exec' = NoExec
    /\ adp' = NoAdp
    /\ submitted' = <<>>
    /\ events' = {}
    /\ notified' = <<>>
    /\ UNCHANGED <<callback, mapper, running, config, probe, rejected, now, recent_trades, deliveries, accepted>>

\* ------------------------------------------------------- close execution
MaxOpenOrders == 2

\* _execute_close_signal lines 690-694: get_positions(symbol) returns the
\* positions with contracts != 0, and [] when fetch_positions fails.
\* "position_absent" notes that the exchange answered without a position
\* of non-zero size for the symbol.
ClosePositions ==
    /\ pc = "close_positions"
    /\ \E report \in PositionReports :
          LET answered == (IF report \in {"none", "zero"}
                           THEN {"get_positions", "position_absent"}
                           ELSE {"get_positions"})
                          \cup {GetPositionsAccount(config)}
          IN  IF PositionDetected(report)
              THEN /\ pc' = "close_position"
                   /\ events' = events \cup answered
              ELSE /\ pc' = "done"
                   /\ events' = events \cup answered \cup {"no_position"}
    /\ UNCHANGED <<callback, notified, mapper, running, config, probe, rejected, now, recent_trades, signal, exec, adp, submitted,
                   deliveries, delivered, accepted>>

\* exchange.py:498-505: the side of the closing order
ClosingOrderSide(position_side) == "sell"

\* main.py:700, close_position(symbol): no size is passed
CloseSizeArgument(sig) == None

\* The reported contracts used as they come, sign included.
ClosePositionSizeSigned(position_size, contracts) ==
    IF position_size = None THEN contracts ELSE position_size

\* exchange.py:482-489: the size of the closing order
ClosePositionSize(position_size, contracts) ==
    IF position_size = None THEN Abs(contracts) ELSE position_size

\* HyperliquidExchange.close_position (exchange.py:469-512): its own
\* fetch_positions, load_markets, then one reduce-only market order.
\* The contracts of a position are reported with either sign;
\* adp.contracts notes the number reported.
ClosePosition ==
    /\ pc = "close_position"
    /\ \E report \in PositionReports, size \in PositionSizes, sign \in {1, -1},
          loaded \in BOOLEAN, order_ok \in BOOLEAN :
          IF ~PositionDetected(report) \/ ~loaded
          THEN /\ pc' = ExceptionTarget("close")
               /\ UNCHANGED <<callback, notified, mapper, running, config, adp, submitted>>
          ELSE LET contracts == sign * size
                   position_size ==
                       ClosePositionSize(CloseSizeArgument(signal), contracts)
               IN  /\ adp' = [NoAdp EXCEPT !.position_found = TRUE,
                                           !.position_size = position_size,
                                           !.position_side = report,
                                           !.contracts = contracts]
                   /\ submitted' = <<[kind |-> "close", type |-> "market",
                                      side |-> ClosingOrderSide(report),
                                      amount |-> RInt(position_size),
                                      reduce_only |-> TRUE]>>
               /\ pc' = IF order_ok THEN "close_cleanup" ELSE ExceptionTarget("close")
    /\ events' = events \cup {"close_position", PositionsAccount(config)}
    /\ UNCHANGED <<callback, notified, mapper, running, config, probe, rejected, now, recent_trades, signal, exec, deliveries, delivered,
                   accepted>>

\* lines 702-708: get_open_orders (returns [] on failure)
GetOpenOrders ==
    /\ pc = "close_cleanup"
    /\ \E n \in 0..MaxOpenOrders :
          /\ adp' = [adp EXCEPT !.open_orders = n, !.orders = 0]
          /\ pc' = IF n = 0 THEN "done" ELSE "cancel_orders"
    /\ events' = events \cup {"closed", "get_open_orders"}
    /\ UNCHANGED <<callback, notified, mapper, running, config, probe, rejected, now, recent_trades, signal, exec, submitted, deliveries,
                   delivered, accepted>>

\* The loop left at the first cancellation that fails.
CancelLoopStopsOnFailure(cancelled) == cancelled

\* main.py:709-712: the result of cancel_order only decides whether a line
\* is logged, the for loop goes on to the next order
CancelLoopGoesOn(cancelled) == TRUE

\* lines 709-712: cancel_order for the next open order, the orders of the
\* list numbered 1..open_orders; it returns False on failure
\* (exchange.py:528-539).  cancel_attempted and cancel_failed note the
\* orders it was called for and those it could not cancel.
CancelOrder ==
    /\ pc = "cancel_orders"
    /\ \E cancelled \in BOOLEAN :
          LET order == adp.orders + 1
          IN  /\ adp' = [adp EXCEPT
                           !.orders = order,
                           !.result = IF cancelled THEN @ ELSE "cancel_failed",
                           !.cancel_attempted = @ \cup {order},
                           !.cancel_failed = IF cancelled THEN @ ELSE @ \cup {order}]
              /\ pc' = IF order < adp.open_orders /\ CancelLoopGoesOn(cancelled)
                       THEN "cancel_orders" ELSE "done"
    /\ events' = events \cup {"cancel_order"}
    /\ UNCHANGED <<callback, notified, mapper, running, config, probe, rejected, now, recent_trades, signal, exec, submitted, deliveries,
                   delivered, accepted>>

\* --------------------------------------------------------- specifications
\* The parser sets symbol_needs_resolution on every signal it builds.
Signals ==
    [signal_type : {"buy", "sell", "close"}, symbol : {ETH, PEPE},
     price : {None, 20}, stop_loss : {None}, take_profit : {None},
     leverage : {None}, quantity : {None}, trader_conviction : {""},
     needs_resolution : {TRUE}]
    \cup
    [signal_type : {"buy"}, symbol : {ETH}, price : {None},
     stop_loss : {None}, take_profit : {None}, leverage : {3},
     quantity : {None}, trader_conviction : {""}, needs_resolution : {TRUE}]

\* The whole pipeline, every answer of the exchange.
Next ==
    \/ \E sig \in Signals : ExecuteSignal(sig, MaxDeliveries)
    \/ DuplicateCheck
    \/ Resolve
    \/ Record
    \/ GetTicker(MarketPrices)
    \/ SetLeverage
    \/ CreateOrderAttempt
    \/ AfterOrder
    \/ WaitPoll
    \/ WaitTimeout
    \/ AfterWait
    \/ TpSlPoll
    \/ TpSlFinalLookup
    \/ TpSlPlace
    \/ NotifySuccess
    \/ InnerExcept
    \/ OuterExcept
    \/ ClosePositions
    \/ ClosePosition
    \/ GetOpenOrders
    \/ CancelOrder
    \/ CloseExcept
    \/ Finish

Spec == Init /\ [][Next]_vars

\* main.py:139-146: the handler installed for SIGINT and SIGTERM sets
\* _running to False; it can run between any two steps of the pipeline.
Shutdown ==
    /\ running
    /\ running' = FALSE
    /\ UNCHANGED <<callback, notified, mapper, config, probe, rejected, now, recent_trades, pc, signal,
                   exec, adp, submitted, events, deliveries, delivered, accepted>>

\* The whole pipeline with a shutdown signal arriving at any point.
NextShutdown == Next \/ Shutdown

SpecShutdown == Init /\ [][NextShutdown]_vars

\* Several deliveries with time passing between them, against an exchange
\* that has no mid price to give: a BUY ends at get_ticker, a CLOSE runs
\* its whole path.
LedgerSignals ==
    [signal_type : {"buy"}, symbol : {ETH, PEPE}, price : {20},
     stop_loss : {None}, take_profit : {None}, leverage : {None},
     quantity : {None}, trader_conviction : {""}, needs_resolution : {TRUE}]
    \cup
    [signal_type : {"buy"}, symbol : {ETH}, price : {21},
     stop_loss : {None}, take_profit : {None}, leverage : {None},
     quantity : {None}, trader_conviction : {""}, needs_resolution : {TRUE}]
    \cup
    [signal_type : {"close"}, symbol : {ETH, PEPE}, price : {None},
     stop_loss : {None}, take_profit : {None}, leverage : {None},
     quantity : {None}, trader_conviction : {""}, needs_resolution : {TRUE}]

NextLedger ==
    \/ Tick
    \/ \E sig \in LedgerSignals : ExecuteSignal(sig, LedgerDeliveries)
    \/ DuplicateCheck
    \/ Resolve
    \/ Record
    \/ GetTicker({})
    \/ InnerExcept
    \/ OuterExcept
    \/ ClosePositions
    \/ ClosePosition
    \/ GetOpenOrders
    \/ CancelOrder
    \/ CloseExcept
    \/ Finish

SpecLedger == Init /\ [][NextLedger]_vars

\* One delivery, taken from the point where _execute_signal has logged the
\* signal, followed up to where the entry order and the bracket prices are
\* decided, over a range of signal and market prices.
PricingSignals ==
    [signal_type : {"buy", "long", "sell", "short"}, symbol : {ETH, PEPE, KAS},
     price : {None, 20}, stop_loss : {None, 18, 23}, take_profit : {None, 17, 24},
     leverage : {None, 3}, quantity : {None}, trader_conviction : {"", "high"},
     needs_resolution : {TRUE}]

InitPricing ==
    /\ now = 0
    /\ recent_trades = <<>>
    /\ pc = "dup_check"
    /\ signal \in PricingSignals
    /\ delivered = signal
    /\ exec = NoExec
    /\ adp = NoAdp
    /\ submitted = <<>>
    /\ events = {"received"}
    /\ deliveries = 1
    /\ accepted = {}
    /\ rejected = {}
    /\ mapper = NoMapper
    /\ notified = <<>>
    /\ callback = NoCallback
    /\ running = TRUE
    /\ config = DefaultConfig
    /\ probe = NoProbe

NextPricing ==
    \/ DuplicateCheck
    \/ Resolve
    \/ Record
    \/ GetTicker(PricingMarketPrices)
    \/ SetLeverage
    \/ InnerExcept
    \/ Finish

SpecPricing == InitPricing /\ [][NextPricing]_vars

\* The same delivery for signals whose stop-loss lies far from the market:
\* half the market price away or more, on either side.
FarStopSignals ==
    [signal_type : {"buy", "long", "sell", "short"}, symbol : {ETH, PEPE},
     price : {None, 20}, stop_loss : {None, 5, 33}, take_profit : {None, 17, 24},
     leverage : {None, 3}, quantity : {None}, trader_conviction : {""},
     needs_resolution : {TRUE}]

InitFarStops ==
    /\ now = 0
    /\ recent_trades = <<>>
    /\ pc = "dup_check"
    /\ signal \in FarStopSignals
    /\ delivered = signal
    /\ exec = NoExec
    /\ adp = NoAdp
    /\ submitted = <<>>
    /\ events = {"received"}
    /\ deliveries = 1
    /\ accepted = {}
    /\ rejected = {}
    /\ mapper = NoMapper
    /\ notified = <<>>
    /\ callback = NoCallback
    /\ running = TRUE
    /\ config = DefaultConfig
    /\ probe = NoProbe

SpecFarStops == InitFarStops /\ [][NextPricing]_vars

\* The same delivery under a configuration whose max_leverage is the default
\* 10 or as low as the default leverage.
CappedConfigs ==
    [vault_address : {FALSE}, max_leverage : {DefaultLeverage, DefaultMaxLeverage}]

CappedSignals ==
    [signal_type : {"buy", "sell"}, symbol : {ETH, PEPE},
     price : {None, 20}, stop_loss : {None}, take_profit : {None},
     leverage : {None, 3}, quantity : {None}, trader_conviction : {""},
     needs_resolution : {TRUE}]

InitCapped ==
    /\ now = 0
    /\ recent_trades = <<>>
    /\ pc = "dup_check"
    /\ signal \in CappedSignals
    /\ delivered = signal
    /\ exec = NoExec
    /\ adp = NoAdp
    /\ submitted = <<>>
    /\ events = {"received"}
    /\ deliveries = 1
    /\ accepted = {}
    /\ rejected = {}
    /\ mapper = NoMapper
    /\ notified = <<>>
    /\ callback = NoCallback
    /\ running = TRUE
    /\ config \in CappedConfigs
    /\ probe = NoProbe

SpecCapped == InitCapped /\ [][NextPricing]_vars

\* The whole pipeline for an account that trades for itself or on behalf
\* of a vault.
VaultConfigs ==
    [vault_address : BOOLEAN, max_leverage : {DefaultMaxLeverage}]

InitVault ==
    /\ now = 0
    /\ recent_trades = <<>>
    /\ pc = "idle"
    /\ signal = NoSignal
    /\ exec = NoExec
    /\ adp = NoAdp
    /\ submitted = <<>>
    /\ events = {}
    /\ deliveries = 0
    /\ delivered = NoSignal
    /\ accepted = {}
    /\ rejected = {}
    /\ mapper = NoMapper
    /\ notified = <<>>
    /\ callback = NoCallback
    /\ running = TRUE
    /\ config \in VaultConfigs
    /\ probe = NoProbe

SpecVault == InitVault /\ [][Next]_vars

\* ------------------------------------------- the Telegram message callback
\* tenacity stop_after_attempt(3) on _safe_callback, client.py:176-179
CallbackAttempts == 3

MaxMessages == 3

\* What a message is to TradingConsumer._handle_message: text the parser
\* makes no signal of, a signal below the confidence threshold, or a signal
\* that is executed.
MessageKinds == {"chatter", "weak", "signal"}

\* TelegramClient._handle_message (client.py:122-174): a message that passes
\* the chat and user filters is converted and handed to _safe_callback;
\* the others are dropped.
TelegramHandleMessage ==
    /\ callback.state = "idle"
    /\ callback.messages < MaxMessages
    /\ \E passes \in BOOLEAN, kind \in MessageKinds, sig \in LedgerSignals :
          callback' = IF passes
                      THEN [messages |-> callback.messages + 1, state |-> "callback",
                            kind |-> kind,
                            sig |-> IF kind = "chatter" THEN NoSignal ELSE sig,
                            attempt |-> 1, executions |-> 0, caught |-> 0]
                      ELSE [NoCallback EXCEPT !.messages = callback.messages + 1]
    /\ UNCHANGED <<notified, mapper, running, config, probe, rejected, now, recent_trades,
                   pc, signal, exec, adp, submitted, events, deliveries, delivered,
                   accepted>>

\* The handler re-raising what it caught.
HandleMessageReraises(raised) == IF raised THEN "raised" ELSE "returned"

\* TradingConsumer._handle_message, main.py:182-183: whatever is raised in
\* the try block is logged, and the callback returns
HandleMessageOutcome(raised) == "returned"

\* _safe_callback, client.py:176-189: whether the callback is called again
CallbackAgain(outcome, attempt) == outcome = "raised" /\ attempt < CallbackAttempts

\* One attempt of _safe_callback: TradingConsumer._handle_message as a whole
\* (main.py:148-183).  failure is where something raises inside its try
\* block: before or in the parse step, around the execution (the call of
\* _execute_signal is counted, whether it returns or not), or nowhere.
SafeCallback ==
    /\ callback.state = "callback"
    /\ \E failure \in {"none", "parsing", "execution"} :
          LET executed == callback.kind = "signal" /\ failure # "parsing"
              raised == failure = "parsing" \/ (executed /\ failure = "execution")
              outcome == HandleMessageOutcome(raised)
              ran == [callback EXCEPT
                        !.executions = IF executed THEN @ + 1 ELSE @,
                        !.caught = IF raised THEN @ + 1 ELSE @]
          IN  callback' = IF CallbackAgain(outcome, callback.attempt)
                          THEN [ran EXCEPT !.attempt = @ + 1]
                          ELSE [ran EXCEPT !.state = "idle"]
    /\ UNCHANGED <<notified, mapper, running, config, probe, rejected, now, recent_trades,
                   pc, signal, exec, adp, submitted, events, deliveries, delivered,
                   accepted>>

NextCallback == TelegramHandleMessage \/ SafeCallback

SpecCallback == Init /\ [][NextCallback]_vars

\* _is_duplicate_trade applied to one signal against a ledger of one or two
\* earlier trades, recorded 9 or 10 minutes before
DedupSignals ==
    [signal_type : {"buy", "sell"}, symbol : {ETH, PEPE},
     price : {None, 20, 21, 22}, stop_loss : {None}, take_profit : {None},
     leverage : {None, 3}, quantity : {None}, trader_conviction : {""},
     needs_resolution : {TRUE}]

EarlierTimes == {0, 1}

EarlierTrades == [sig : DedupSignals, timestamp : EarlierTimes]

SecondTrades ==
    {a \in EarlierTrades : a.sig.symbol = ETH /\ a.sig.signal_type = "buy"}

Histories ==
    {<<a>> : a \in EarlierTrades}
    \cup {h \in {<<a, b>> : a \in EarlierTrades, b \in SecondTrades} :
             h[1].timestamp <= h[2].timestamp}

RECURSIVE RecordAll(_, _)
RecordAll(trades, h) ==
    IF h = <<>> THEN trades
    ELSE RecordAll(RecordTrade(trades, Head(h).sig, Head(h).timestamp), Tail(h))

InitDedup ==
    /\ now = DedupeWindow
    /\ \E h \in Histories :
          /\ recent_trades = RecordAll(<<>>, h)
          /\ accepted = {[sig |-> h[i].sig, timestamp |-> h[i].timestamp, n |-> i] :
                           i \in 1..Len(h)}
          /\ deliveries = Len(h) + 1
    /\ pc = "dup_check"
    /\ signal \in DedupSignals
    /\ delivered = signal
    /\ exec = NoExec
    /\ adp = NoAdp
    /\ submitted = <<>>
    /\ events = {"received"}
    /\ rejected = {}
    /\ mapper = NoMapper
    /\ notified = <<>>
    /\ callback = NoCallback
    /\ running = TRUE
    /\ config = DefaultConfig
    /\ probe = NoProbe

NextDedup ==
    \/ DuplicateCheck
    \/ Finish

SpecDedup == InitDedup /\ [][NextDedup]_vars

\* resolve_symbol called directly, over tickers and listings
ResolverTickers == {ETH, PEPE, KAS, <<"B", "T", "C">>}

ResolverMarkets ==
    SUBSET {ETH, PEPE, KPrefixed(PEPE), KPrefixed(KAS), <<"S", "O", "L">>}

InitResolver ==
    /\ now = 0
    /\ recent_trades = <<>>
    /\ pc = "idle"
    /\ signal = NoSignal
    /\ exec = NoExec
    /\ adp = NoAdp
    /\ submitted = <<>>
    /\ events = {}
    /\ deliveries = 0
    /\ delivered = NoSignal
    /\ accepted = {}
    /\ rejected = {}
    /\ mapper = NoMapper
    /\ notified = <<>>
    /\ callback = NoCallback
    /\ running = TRUE
    /\ config = DefaultConfig
    /\ probe \in [symbol : ResolverTickers, loaded : BOOLEAN,
                   markets : ResolverMarkets, called : {FALSE},
                   result : {NoSymbol}, calls : {0}, previous : {NoSymbol},
                   available_symbols : {NoCache}]

\* the calls of resolve_symbol made on one resolver
ResolverCalls == 2

\* One call of resolve_symbol on the global resolver, directly or through
\* resolve_symbol_for_trading, which first hands the exchange to
\* set_exchange (lines 18-21, 132-135: the field is reset).
\* get_available_symbols stores the symbols it extracted (line 56) and
\* stores nothing when load_markets raised (lines 59-61).  probe.previous
\* notes the result of the call before.
ResolveSymbolCall ==
    /\ ~probe.called
    /\ probe.calls < ResolverCalls
    /\ probe.symbol # NoSymbol
    /\ \E for_trading \in BOOLEAN :
          LET cache == IF for_trading THEN NoCache ELSE probe.available_symbols
              fresh == GetAvailableSymbols(probe.loaded, probe.markets)
          IN  probe' = [probe EXCEPT
                 !.called = TRUE,
                 !.calls = @ + 1,
                 !.previous = probe.result,
                 !.result = ResolveAgainst(probe.symbol, SymbolsForCall(cache, fresh)),
                 !.available_symbols =
                     IF probe.loaded THEN [filled |-> TRUE, symbols |-> probe.markets]
                     ELSE cache]
    /\ UNCHANGED <<callback, notified, mapper, running, config, now, recent_trades, pc, signal, exec, adp, submitted,
                   events, deliveries, delivered, accepted, rejected>>

\* Between two calls the exchange lists or delists tickers, or stops or
\* starts answering load_markets.
ListingsChange ==
    /\ probe.called
    /\ probe.calls < ResolverCalls
    /\ \E loaded \in BOOLEAN, markets \in ResolverMarkets :
          /\ <<loaded, markets>> # <<probe.loaded, probe.markets>>
          /\ probe' = [probe EXCEPT !.called = FALSE, !.loaded = loaded,
                                    !.markets = markets]
    /\ UNCHANGED <<callback, notified, mapper, running, config, now, recent_trades, pc, signal, exec, adp, submitted,
                   events, deliveries, delivered, accepted, rejected>>

NextResolver == ResolveSymbolCall \/ ListingsChange

SpecResolver == InitResolver /\ [][NextResolver]_vars

\* -------------------------------------------------- symbol mapper, alone
\* SymbolMapper.map_to_hyperliquid: upper-case (strip leaves a ticker without
\* blanks as it is), then the mapping or the symbol itself.
MapToHyperliquid(m, symbol) ==
    LET upper == Upper(symbol)
    IN  DictGet(m.hyperliquid_mappings, upper, upper)

\* SymbolMapper.map_from_hyperliquid: upper-case first, then the reverse
\* mapping or the (upper-cased) symbol itself.
ReverseKey(symbol) == Upper(symbol)

MapFromHyperliquid(m, symbol) ==
    LET key == ReverseKey(symbol)
    IN  DictGet(m.hyperliquid_reverse, key, key)

\* SymbolMapper.add_mapping: both sides upper-cased, both dicts written.
AddMappingTo(m, original, exchange) ==
    [m EXCEPT !.hyperliquid_mappings = DictPut(@, Upper(original), Upper(exchange)),
              !.hyperliquid_reverse = DictPut(@, Upper(exchange), Upper(original)),
              !.added = @ + 1]

MaxAdded == 2

AddedOriginals == {ETH, KAS, PEPE}
AddedExchanges == {KPrefixed(ETH), KPrefixed(KAS), KPrefixed(PEPE), ETH}
MapperTickers == {PEPE, SHIB, ETH, KAS}

AddMapping ==
    /\ mapper.symbol = <<>>
    /\ mapper.added < MaxAdded
    /\ \E original \in AddedOriginals, exchange \in AddedExchanges :
          mapper' = AddMappingTo(mapper, original, exchange)
    /\ UNCHANGED <<callback, notified, running, config, probe, rejected, now, recent_trades, pc, signal,
                   exec, adp, submitted, events, deliveries, delivered, accepted>>

\* one round trip: map_from_hyperliquid(map_to_hyperliquid(T))
MapRoundTrip ==
    /\ mapper.symbol = <<>>
    /\ \E T \in MapperTickers :
          LET mapped == MapToHyperliquid(mapper, T)
          IN  mapper' = [mapper EXCEPT !.symbol = T, !.mapped = mapped,
                                       !.back = MapFromHyperliquid(mapper, mapped)]
    /\ UNCHANGED <<callback, notified, running, config, probe, rejected, now, recent_trades, pc, signal,
                   exec, adp, submitted, events, deliveries, delivered, accepted>>

NextMapper == AddMapping \/ MapRoundTrip

InitMapper ==
    /\ now = 0
    /\ recent_trades = <<>>
    /\ pc = "idle"
    /\ signal = NoSignal
    /\ exec = NoExec
    /\ adp = NoAdp
    /\ submitted = <<>>
    /\ events = {}
    /\ deliveries = 0
    /\ delivered = NoSignal
    /\ accepted = {}
    /\ rejected = {}
    /\ mapper = NoMapper
    /\ notified = <<>>
    /\ callback = NoCallback
    /\ running = TRUE
    /\ config = DefaultConfig
    /\ probe = NoProbe

SpecMapper == InitMapper /\ [][NextMapper]_vars

TypeOK ==
    /\ now \in 0..MaxTime
    /\ deliveries \in 0..LedgerDeliveries
    /\ Len(recent_trades) <= deliveries

\* ------------------------------------------------------------- properties
\* the calls that change something at the exchange
ExchangeMutating == {"set_leverage", "create_order", "close_position"}

\* two signals the dedup contract takes for the same trade
SameTrade(a, b) ==
    /\ a.symbol = b.symbol
    /\ a.signal_type = b.signal_type
    /\ a.leverage = b.leverage
    /\ PriceMatch(a.price, b.price)

\* earlier deliveries that were recorded and carry the same trade as the
\* delivery in progress
EarlierSame == {a \in accepted : a.n < deliveries /\ SameTrade(a.sig, delivered)}

DupChecked == "dup_passed" \in events \/ "dup_rejected" \in events

\* C1: a delivery whose signal is the same trade as an earlier recorded
\* delivery is rejected as a duplicate when it comes less than 10 minutes
\* after that delivery was recorded, and is not rejected when every such
\* earlier delivery is more than 10 minutes old; whatever the ticker.
C1_DedupWindow ==
    DupChecked =>
        /\ \A a \in EarlierSame :
              now - a.timestamp < DedupeWindow => "dup_rejected" \in events
        /\ (EarlierSame # {} /\ \A a \in EarlierSame : now - a.timestamp > DedupeWindow)
              => "dup_passed" \in events

Times1000(v) == IF v = None THEN None ELSE v * 1000

\* resolution has mapped the delivered ticker T to kT
MappedToScaled ==
    /\ "resolve" \in events
    /\ "notify_failed" \notin events
    /\ delivered.symbol # NoSymbol
    /\ signal.symbol = KPrefixed(Upper(delivered.symbol))

\* C2: whenever resolution maps T to kT, price, stop_loss and take_profit
\* of the signal are 1000 times the delivered values (absent stays absent),
\* and so is the price recorded in the ledger; for every ticker T.
C2_Rescale ==
    MappedToScaled =>
        /\ signal.price = Times1000(delivered.price)
        /\ signal.stop_loss = Times1000(delivered.stop_loss)
        /\ signal.take_profit = Times1000(delivered.take_profit)
        /\ "recorded" \in events =>
              recent_trades[Len(recent_trades)].entry_price
                  = Times1000(delivered.price)

\* the entry order and the bracket prices have been decided
OrderDecided == pc = "create_order" /\ adp.attempt = 1 /\ submitted = <<>>

Within5PercentOfMarket ==
    LimitThreshold[2] * Abs(signal.price - exec.current_price)
        <= LimitThreshold[1] * exec.current_price

Within5PercentOfSignal ==
    LimitThreshold[2] * Abs(exec.current_price - signal.price)
        <= LimitThreshold[1] * signal.price

\* C3 as stated: the entry order is a MARKET order when the signal price p
\* is within 5% of the market price m (|p - m| <= 5% of m), a LIMIT order
\* at p otherwise, and a MARKET order when the signal has no price.
C3_OrderTypeOfMarket ==
    OrderDecided =>
        IF signal.price = None THEN EntryOrder.type = "market"
        ELSE IF Within5PercentOfMarket THEN EntryOrder.type = "market"
        ELSE EntryOrder.type = "limit" /\ exec.order_price = signal.price

\* C3 amended: the 5% is measured against the signal price: MARKET when
\* |m - p| <= 5% of p (5% exactly included), LIMIT at p otherwise, MARKET
\* when the signal has no price.
C3_OrderTypeOfSignal ==
    OrderDecided =>
        IF signal.price = None
        THEN EntryOrder.type = "market" /\ exec.order_price = None
        ELSE IF Within5PercentOfSignal
        THEN EntryOrder.type = "market" /\ exec.order_price = None
        ELSE EntryOrder.type = "limit" /\ exec.order_price = signal.price

\* a priced signal exactly 5% of its price away from the market got a
\* MARKET order
C3_Boundary ==
    /\ OrderDecided
    /\ signal.price # None
    /\ signal.price # exec.current_price
    /\ LimitThreshold[2] * Abs(exec.current_price - signal.price)
          = LimitThreshold[1] * signal.price
    /\ EntryOrder.type = "market"

SlOnly == signal.stop_loss # None /\ signal.take_profit = None

TwiceSlDistance == 2 * Abs(signal.stop_loss - exec.current_price)

\* C4: with a stop-loss and no take-profit on the signal, the stop-loss
\* used is the signal's and the take-profit is m + 2*|SL - m| for a BUY or
\* LONG and m - 2*|SL - m| for a SELL or SHORT, m being the market price;
\* the signal's own price plays no part.
C4_SlOnly ==
    (OrderDecided /\ SlOnly) =>
        /\ exec.sl_price = RInt(signal.stop_loss)
        /\ exec.side = "buy" =>
              exec.tp_price = RInt(exec.current_price + TwiceSlDistance)
        /\ exec.side = "sell" =>
              exec.tp_price = RInt(exec.current_price - TwiceSlDistance)

\* an SL-only BUY whose signal price differs from the market price
C4_Reached ==
    /\ OrderDecided
    /\ SlOnly
    /\ exec.side = "buy"
    /\ signal.price # None
    /\ signal.price # exec.current_price
    /\ signal.stop_loss < exec.current_price

PolicyEntry == IF signal.price # None THEN signal.price ELSE exec.current_price

Above(e, pct) == Rat(e * (pct[2] + pct[1]), pct[2])
Below(e, pct) == Rat(e * (pct[2] - pct[1]), pct[2])

PolicyCase ==
    IF signal.take_profit # None /\ signal.stop_loss # None THEN "signal"
    ELSE IF signal.stop_loss # None THEN "sl_only"
    ELSE IF signal.take_profit # None THEN "tp_only"
    ELSE "default"

\* C5: the bracket prices follow exactly one of four cases, in this
\* priority: TP and SL of the signal unchanged; SL only, the 2x rule; TP
\* only, the signal's TP and a stop-loss at the default SL percentage from
\* the entry price; neither, both default percentages from the entry price.
\* The entry price is the signal price when present, else the market price;
\* a BUY has TP above and SL below the entry, a SELL the reverse.
C5_BracketCases ==
    OrderDecided =>
        /\ exec.rule = PolicyCase
        /\ PolicyCase = "signal" =>
              /\ exec.tp_price = RInt(signal.take_profit)
              /\ exec.sl_price = RInt(signal.stop_loss)
        /\ PolicyCase = "sl_only" =>
              /\ exec.sl_price = RInt(signal.stop_loss)
              /\ exec.tp_price =
                    IF exec.side = "buy"
                    THEN RInt(exec.current_price + TwiceSlDistance)
                    ELSE RInt(exec.current_price - TwiceSlDistance)
        /\ PolicyCase = "tp_only" =>
              /\ exec.tp_price = RInt(signal.take_profit)
              /\ exec.sl_price =
                    IF exec.side = "buy"
                    THEN Below(PolicyEntry, DefaultSlPercent)
                    ELSE Above(PolicyEntry, DefaultSlPercent)
        /\ PolicyCase = "default" =>
              /\ exec.tp_price =
                    IF exec.side = "buy"
                    THEN Above(PolicyEntry, DefaultTpPercent)
                    ELSE Below(PolicyEntry, DefaultTpPercent)
              /\ exec.sl_price =
                    IF exec.side = "buy"
                    THEN Below(PolicyEntry, DefaultSlPercent)
                    ELSE Above(PolicyEntry, DefaultSlPercent)

\* a SELL without TP and SL whose signal price differs from the market
C5_Reached ==
    /\ OrderDecided
    /\ exec.side = "sell"
    /\ PolicyCase = "default"
    /\ signal.price # None
    /\ signal.price # exec.current_price
    /\ exec.tp_price = Below(signal.price, DefaultTpPercent)

\* C6: a CLOSE executed while the exchange reports no position for the
\* symbol submits no order and cancels nothing and ends there, at every
\* such execution, however many went before.
C6_IdempotentClose ==
    (delivered.signal_type = "close" /\ "position_absent" \in events) =>
        /\ pc = "done"
        /\ submitted = <<>>
        /\ events \cap {"close_position", "closed", "get_open_orders",
                        "cancel_order", "create_order", "set_leverage"} = {}

\* a CLOSE that found no position, after an earlier CLOSE of the same
\* ticker had been executed
C6_Reached ==
    /\ delivered.signal_type = "close"
    /\ "position_absent" \in events
    /\ "no_position" \in events
    /\ deliveries >= 2
    /\ \E a \in accepted : /\ a.n < deliveries
                           /\ a.sig.signal_type = "close"
                           /\ a.sig.symbol = delivered.symbol

\* C7: wait_for_order_fill never polls more than its timeout of 30 times,
\* errors included; when no poll reports FILLED, CANCELLED or REJECTED or a
\* position, it polls exactly 30 times, sleeps after each, and returns
\* false; the executor then ends the signal with a failure notification
\* and creates no brackets.
C7_FillWaitBound ==
    /\ pc \in {"wait_fill", "wait_done"} =>
          /\ adp.polls <= FillTimeout
          /\ adp.sleeps <= adp.polls
    /\ (pc = "wait_done" /\ adp.clean) =>
          /\ adp.result = "false"
          /\ adp.polls = FillTimeout
          /\ adp.sleeps = FillTimeout
    /\ "fill_timeout" \in events =>
          /\ pc = "done"
          /\ "notify_failed" \in events
          /\ events \cap {"create_tp_sl", "notify_success", "filled"} = {}

\* the wait ran out against an exchange that never reported anything
C7_Reached ==
    /\ pc = "wait_done"
    /\ adp.clean
    /\ adp.result = "false"
    /\ adp.polls = FillTimeout

\* the places _execute_signal can be at; "escaped" is not one of them
ExecutorPoints ==
    {"idle", "dup_check", "resolve", "record", "buy_ticker", "sell_ticker",
     "set_leverage", "create_order", "order_created", "wait_fill",
     "wait_done", "create_tp_sl", "tp_sl_place", "tp_sl_done",
     "inner_except", "outer_except", "close_except", "close_positions",
     "close_position", "close_cleanup", "cancel_orders", "done"}

Handled == events \cap {"inner_except", "outer_except", "close_except"} # {}

\* C8: whatever fails, no exception leaves _execute_signal: every exception
\* ends in a handler, and after the handler the execution has returned.
C8_NoEscape ==
    /\ pc \in ExecutorPoints
    /\ Handled => pc = "done"

\* an exception was raised during a delivery, and the delivery returned
C8_Reached ==
    /\ pc = "done"
    /\ "inner_except" \in events
    /\ "create_order" \in events

\* C9: the signal is in the ledger before any call that changes something
\* at the exchange, and from then on a second delivery of the same signal
\* would be found a duplicate.
C9_RecordBeforeExecution ==
    /\ events \cap ExchangeMutating # {} => "recorded" \in events
    /\ "recorded" \in events =>
          IsDuplicateTrade(CleanupOldTrades(recent_trades, now), delivered)

\* C10: when the resolver returns none, the delivery ends with a failure
\* notification, nothing is added to the ledger, and no ticker, leverage,
\* order or close call is made.
C10_ResolutionFailure ==
    "resolver_none" \in events =>
        /\ pc = "done"
        /\ "notify_failed" \in events
        /\ "recorded" \notin events
        /\ \A a \in accepted : a.n # deliveries
        /\ events \cap (ExchangeMutating \cup {"get_ticker", "get_positions"}) = {}
        /\ submitted = <<>>
        /\ signal = delivered

\* the resolver found neither PEPE nor kPEPE listed
C10_Reached ==
    /\ "resolver_none" \in events
    /\ pc = "done"
    /\ delivered.symbol = PEPE


\* the listings obtained by the call: none when load_markets failed
ProbeListings == IF probe.loaded THEN probe.markets ELSE {}

\* C11: resolve_symbol(T) returns T when T is listed, otherwise kT when kT
\* is listed, otherwise none, and never a symbol that is not in the
\* listings obtained during the call.
C11_TwoProbe ==
    probe.called =>
        /\ probe.result =
              IF Upper(probe.symbol) \in ProbeListings THEN Upper(probe.symbol)
              ELSE IF KPrefixed(Upper(probe.symbol)) \in ProbeListings
              THEN KPrefixed(Upper(probe.symbol))
              ELSE NoSymbol
        /\ probe.result # NoSymbol => probe.result \in ProbeListings

\* C12: an entry order is submitted only after set_leverage succeeded in
\* the same execution, with the signal's leverage when it has one and the
\* default otherwise; after a failed set_leverage the execution is over and
\* no order is submitted.
C12_LeverageFirst ==
    /\ (pc = "create_order" \/ "create_order" \in events) =>
          /\ "set_leverage" \in events
          /\ "leverage_failed" \notin events
          /\ exec.leverage = IF delivered.leverage # None
                             THEN delivered.leverage ELSE DefaultLeverage
    /\ "leverage_failed" \in events =>
          /\ pc = "done"
          /\ submitted = <<>>
          /\ "create_order" \notin events

\* an entry order went out for a signal that names its leverage
C12_Reached ==
    /\ pc = "order_created"
    /\ Len(submitted) > 0
    /\ submitted[1].kind = "entry"
    /\ delivered.leverage = 3
    /\ exec.leverage = 3

\* C13: when the entry order was not FILLED at creation and the wait for
\* the fill returns false, the execution ends with a trade-failed
\* notification; create_tp_sl_orders is never called and no success
\* notification is sent.
C13_FillTimeout ==
    /\ "wait_fill" \in events => exec.status # "FILLED"
    /\ "wait_false" \in events =>
          /\ pc = "done"
          /\ "notify_failed" \in events
          /\ events \cap {"create_tp_sl", "notify_success", "inner_except"} = {}
          /\ submitted = <<>>

\* a SELL whose entry order was never filled has ended
C13_Reached ==
    /\ "wait_false" \in events
    /\ pc = "done"
    /\ exec.side = "sell"
    /\ exec.status \in {"OPEN", "PENDING"}

EntryFilled == "filled" \in events \/ "already_filled" \in events

\* C14: once the entry order is confirmed filled, the execution ends with
\* the trade-executed notification whatever becomes of the brackets, and
\* never with a trade-failed notification.
C14_BracketFailureNonFatal ==
    EntryFilled =>
        /\ "notify_failed" \notin events
        /\ pc = "done" => "notify_success" \in events

FallbackCount ==
    Cardinality({i \in 1..Len(submitted) : submitted[i].kind = "fallback"})

\* C15: for one market entry order requested by the executor, at most one
\* fallback LIMIT IOC order is submitted, over all attempts of create_order.
C15_SingleFallback == FallbackCount <= 1

EntryCount ==
    Cardinality({i \in 1..Len(submitted) : submitted[i].kind = "entry"})

\* the places where one adapter call other than create_order is made
SingleAttemptPoints ==
    {"buy_ticker", "sell_ticker", "set_leverage", "close_positions",
     "close_position", "close_cleanup"}

AttemptsBounded ==
    /\ adp.attempt <= MaxAttempts
    /\ EntryCount <= MaxAttempts
    /\ pc = "create_order" => adp.attempt >= 1

OneAttemptEach ==
    /\ pc \in SingleAttemptPoints => pc' # pc
    /\ pc = "cancel_orders" => adp'.orders = adp.orders + 1
    /\ (pc = "wait_fill" /\ pc' = "wait_fill") => adp'.polls = adp.polls + 1
    /\ (pc = "create_order" /\ pc' = "create_order") =>
          adp'.attempt = adp.attempt + 1

\* C16: create_order is attempted at most 3 times for one request, and no
\* other adapter call is repeated: get_ticker, set_leverage, get_positions,
\* close_position and get_open_orders are left after one attempt whatever
\* its outcome, cancel_order is called once per open order and
\* get_order_status once per poll.
C16_RetryScope == []AttemptsBounded /\ [][OneAttemptEach]_vars

\* create_order has given up after its third attempt
C16_Reached ==
    /\ pc = "inner_except"
    /\ adp.attempt = MaxAttempts
    /\ EntryCount = MaxAttempts

\* an earlier trade and a signal agree as the duplicate predicate demands
LedgerMatch(a, sig) ==
    /\ a.symbol = sig.symbol
    /\ a.signal_type = sig.signal_type
    /\ a.leverage = sig.leverage
    /\ \/ a.price = None /\ sig.price = None
       \/ /\ a.price # None
          /\ sig.price # None
          /\ 100 * Abs(a.price - sig.price) < TicksPerUnit

Unexpired(a) == now - a.timestamp < DedupeWindow

Rejecting == "dup_rejected" \notin events /\ "dup_rejected" \in events'

\* every entry of the ledger after the step is an entry of the ledger before
LedgerOnlyShrinks ==
    /\ Len(recent_trades') <= Len(recent_trades)
    /\ \A i \in 1..Len(recent_trades') :
          \E j \in 1..Len(recent_trades) : recent_trades[j] = recent_trades'[i]

RejectionLeavesLedger == Rejecting => (accepted' = accepted /\ LedgerOnlyShrinks)

\* an acceptance at t0 followed by a rejection of the same trade at t1,
\* t0 <= t1 < t0 + 10 min, the delivery in progress coming after t0 + 10 min
\* and before t1 + 10 min
RejectedInBetween ==
    \E a \in accepted : \E r \in rejected :
        /\ a.n < r.n /\ r.n < deliveries
        /\ SameTrade(a.sig, r.sig) /\ SameTrade(a.sig, delivered)
        /\ r.timestamp - a.timestamp < DedupeWindow
        /\ now - a.timestamp > DedupeWindow
        /\ now - r.timestamp < DedupeWindow

\* no acceptance of the same trade is within the window of the delivery in
\* progress
NoneAcceptedInWindow ==
    \A a \in accepted :
        (a.n < deliveries /\ SameTrade(a.sig, delivered))
            => now - a.timestamp > DedupeWindow

WindowNotReset ==
    (DupChecked /\ RejectedInBetween /\ NoneAcceptedInWindow)
        => "dup_passed" \in events

\* C18: rejecting a duplicate adds no ledger entry and changes no entry's
\* timestamp; so a signal accepted at t0, rejected again at t1 < t0 + 10 min,
\* is accepted at t2 > t0 + 10 min even when t2 < t1 + 10 min.
C18_WindowNotReset == []WindowNotReset /\ [][RejectionLeavesLedger]_vars

\* the third delivery of a trade accepted first and rejected second has
\* passed the duplicate check inside the window of the rejection
C18_Reached ==
    /\ RejectedInBetween
    /\ NoneAcceptedInWindow
    /\ "dup_passed" \in events

\* the TP and SL orders create_tp_sl_orders has submitted
BracketsSubmitted == {submitted[i] : i \in 1..Len(submitted)}

ClosingSideOf(side) == IF side = "long" THEN "sell" ELSE "buy"

\* C19: every TP and SL order submitted by create_tp_sl_orders has side
\* sell when the confirmed position is long and side buy when it is short,
\* whether the poll for the symbol or the final lookup across all positions
\* confirmed it.
C19_ClosingDirection ==
    pc = "tp_sl_done" =>
        \A o \in BracketsSubmitted : o.side = ClosingSideOf(adp.confirmed_side)

ConfirmingPosition == pc \in {"create_tp_sl", "tp_sl_place"}

\* C20: create_tp_sl_orders submits no TP or SL order unless a non-zero
\* position was observed, polls for the position at most 15 times with a
\* one-second sleep after each fruitless poll, and gives every TP and SL
\* order the observed position size as amount.
C20_PositionFirst ==
    /\ ConfirmingPosition =>
          /\ adp.polls <= PositionPolls
          /\ adp.sleeps = IF adp.position_side = "none" THEN adp.polls
                          ELSE adp.polls - 1
    /\ pc = "tp_sl_place" => adp.position_found
    /\ \A o \in BracketsSubmitted :
          o.kind \in {"tp", "sl"} =>
              /\ adp.position_found
              /\ adp.position_size # 0
              /\ o.amount = RInt(adp.position_size)

\* a TP and an SL order submitted for a position whose size is not the
\* quantity of the entry order
C20_Reached ==
    /\ pc = "tp_sl_done"
    /\ \E o \in BracketsSubmitted : o.kind = "tp"
    /\ \E o \in BracketsSubmitted : o.kind = "sl"
    /\ RInt(adp.position_size) # exec.quantity

\* C21: wait_for_order_fill returns true if at any poll before the timeout
\* the order status is FILLED or a non-zero position on the symbol is
\* reported, each of the two alone being enough whatever the other reports
\* at that poll.
C21_EitherSignal ==
    pc = "wait_done" =>
        ((adp.filled_seen \/ adp.position_seen) => adp.result = "true")

\* the entry order was reported FILLED, by create_order or by a poll
ReportedFilled == "already_filled" \in events \/ "status_filled" \in events

\* C22: create_tp_sl_orders is called, and the success notification sent,
\* only for an entry order that has been filled; an order still open,
\* partially filled, cancelled or rejected never gets there.
C22_OnlyFilledProceeds ==
    ("create_tp_sl" \in events \/ "notify_success" \in events) => ReportedFilled

TerminalStatuses == {"FILLED", "REJECTED", "CANCELLED"}

\* a step of create_order, one of its attempts with the fallback it may take
CreateOrderStep == pc = "create_order"

TerminalStatusKept ==
    (CreateOrderStep /\ exec.status \in TerminalStatuses)
        => exec'.status = exec.status

\* C23: once the status of a TradeOrder is FILLED, REJECTED or CANCELLED it
\* never changes again, through create_order, its retry attempts and its
\* fallback path.
C23_TerminalStatus == [][TerminalStatusKept]_vars

\* the closing orders submitted in the execution in progress
ClosingOrders == {i \in 1..Len(submitted) : submitted[i].kind = "close"}

\* C24: executing a CLOSE on an existing position submits exactly one
\* closing order, reduce-only, whose amount is the absolute value of the
\* position size the exchange reported to close_position.
C24_CloseSizing ==
    /\ Cardinality(ClosingOrders) <= 1
    /\ pc \in {"close_cleanup", "cancel_orders"} => Cardinality(ClosingOrders) = 1
    /\ \A i \in ClosingOrders :
          /\ submitted[i].reduce_only
          /\ adp.contracts # 0
          /\ submitted[i].amount = RInt(Abs(adp.contracts))

\* a position reported with negative contracts closed by one order
C24_Reached ==
    /\ pc = "close_cleanup"
    /\ adp.contracts < 0
    /\ Cardinality(ClosingOrders) = 1

\* the close went through and the cleanup after it has ended
CleanupEnded == pc = "done" /\ "get_open_orders" \in events

\* C25: after a successful close cancel_order is attempted exactly once for
\* every open order that get_open_orders returned, the orders after a
\* failed cancellation included.
C25_CloseCleanup ==
    /\ "get_open_orders" \in events => "close_position" \in events
    /\ "cancel_order" \in events =>
          /\ adp.orders = Cardinality(adp.cancel_attempted)
          /\ adp.cancel_attempted = 1..adp.orders
          /\ adp.orders <= adp.open_orders
    /\ CleanupEnded =>
          /\ adp.cancel_attempted = 1..adp.open_orders
          /\ adp.orders = adp.open_orders

\* the first cancellation failed and the second order was still attempted
C25_Reached ==
    /\ CleanupEnded
    /\ 1 \in adp.cancel_failed
    /\ 2 \in adp.cancel_attempted

ValidSymbol(symbol) == symbol # NoSymbol /\ Upper(symbol) = symbol

PresentPositive(v) == v = None \/ v > 0

\* C26: in every state of _execute_signal, before and after resolution and
\* rescaling, and in every ledger entry, the symbol of the signal is
\* non-empty and entirely uppercase and each price that is present is
\* strictly positive.
C26_SignalInvariant ==
    /\ pc # "idle" =>
          /\ ValidSymbol(signal.symbol)
          /\ PresentPositive(signal.price)
          /\ PresentPositive(signal.stop_loss)
          /\ PresentPositive(signal.take_profit)
    /\ \A i \in 1..Len(recent_trades) :
          /\ ValidSymbol(recent_trades[i].symbol)
          /\ PresentPositive(recent_trades[i].entry_price)

\* what the execution notes when an exchange call has failed: get_ticker
\* without a ticker, set_leverage refused, an exception in the buy or sell
\* path (order creation, brackets), the fill wait given up, an exception in
\* the close path
FailureEvents == {"ticker_failed", "leverage_failed", "inner_except",
                  "fill_timeout", "close_except"}

\* C27: whenever an exchange call fails during the execution of a signal
\* that is not a duplicate, a trade-failed notification is sent for it.
C27_FailuresNotified ==
    (pc = "done" /\ events \cap FailureEvents # {}) => "notify_failed" \in events

\* what resolve_symbol makes of a ticker and a set of listings
ResultFor(symbol, listings) ==
    IF listings = {} THEN Upper(symbol)
    ELSE IF Upper(symbol) \in listings THEN Upper(symbol)
    ELSE IF KPrefixed(Upper(symbol)) \in listings THEN KPrefixed(Upper(symbol))
    ELSE NoSymbol

\* C28: the result of resolve_symbol depends only on the listings the
\* exchange returns during that call; after a listing or delisting between
\* two calls the second call returns the result for the new listings.
C28_NotCached ==
    probe.called => probe.result = ResultFor(probe.symbol, ProbeListings)

\* a second call whose result differs from that of the first, after the
\* listings changed
C28_Reached ==
    /\ probe.called
    /\ probe.calls = 2
    /\ probe.available_symbols.filled
    /\ probe.previous # NoSymbol
    /\ probe.result # NoSymbol
    /\ probe.result # probe.previous

\* the submissions of one kind and shape among the bracket orders
Shaped(kind, type) ==
    {i \in 1..Len(submitted) : submitted[i].kind = kind /\ submitted[i].type = type}

ReturnedOf(kind) == {i \in 1..Len(adp.returned) : adp.returned[i] = kind}

SecondaryShape(kind) == IF kind = "tp" THEN "limit" ELSE "stop_market"

LegPrice(kind) == IF kind = "tp" THEN exec.tp_price ELSE exec.sl_price

\* C29: for each of TP and SL the secondary shape (plain limit for TP,
\* stop-market for SL) is submitted if and only if the primary submission
\* failed; the SL is attempted whatever became of the TP; the returned list
\* holds at most one TP and one SL order, and one call submits at most four
\* bracket orders.
C29_TwoTierFallback ==
    pc = "tp_sl_done" =>
        /\ \A kind \in {"tp", "sl"} :
              /\ Cardinality(Shaped(kind, "market_trigger"))
                    = IF Truthy(LegPrice(kind)) THEN 1 ELSE 0
              /\ Cardinality(Shaped(kind, SecondaryShape(kind)))
                    = IF kind \in adp.primary_failed THEN 1 ELSE 0
              /\ Cardinality(ReturnedOf(kind)) <= 1
        /\ Len(submitted) =
              Cardinality(Shaped("tp", "market_trigger")) + Cardinality(Shaped("tp", "limit"))
              + Cardinality(Shaped("sl", "market_trigger"))
              + Cardinality(Shaped("sl", "stop_market"))
        /\ Len(submitted) <= 4

\* the TP failed in both shapes, the SL was still attempted and went
\* through at the first submission
C29_Reached ==
    /\ pc = "tp_sl_done"
    /\ adp.primary_failed = {"tp"}
    /\ adp.returned = <<"sl">>
    /\ Len(submitted) = 3

\* C30: for a signal rejected as a duplicate exactly one notification, the
\* signal-received one, is sent, and it is sent before the duplicate check;
\* no resolver call, exchange call or ledger append is made for the signal.
C30_DuplicateHandling ==
    /\ pc = "dup_check" => events = {"received"}
    /\ "dup_rejected" \in events =>
          /\ pc = "done"
          /\ events = {"received", "dup_rejected"}
          /\ signal = delivered
          /\ exec = NoExec
          /\ submitted = <<>>
          /\ \A a \in accepted : a.n # deliveries

\* a second delivery of a recorded trade has been rejected
C30_Reached ==
    /\ "dup_rejected" \in events
    /\ pc = "done"
    /\ \E a \in accepted : a.n < deliveries /\ SameTrade(a.sig, delivered)

\* a polling loop of the adapter is in progress
PollingLoop == pc \in {"wait_fill", "create_tp_sl"}

\* C31: after a shutdown signal has set _running to false, a fill-wait loop
\* or position-confirmation loop in flight stops polling before it exhausts
\* its iteration cap: it makes at most the poll that was under way.
C31_PollingCancelled ==
    (~running /\ PollingLoop) => adp.polled_stopped <= 1

\* C32: a ticker that has a Hyperliquid mapping (built in, or added with
\* add_mapping) comes back from map_from_hyperliquid(map_to_hyperliquid(T))
\* as itself.
C32_RoundTrip ==
    (mapper.symbol # <<>> /\ mapper.symbol \in DictKeys(mapper.hyperliquid_mappings))
        => mapper.back = mapper.symbol

\* C33: for one executed BUY/SELL signal the exchange accepts at most one
\* entry order, over all attempts of create_order and its fallback.
C33_OneEntry ==
    adp.entries_accepted <= 1

\* C34: the order close_position submits has the side opposite to the
\* position it closes: sell for a long position, buy for a short one.
C34_CloseOpposite ==
    \A i \in 1..Len(submitted) :
        submitted[i].kind = "close"
            => submitted[i].side = ClosingSideOf(adp.position_side)

\* what excuses a CLOSE delivery from submitting its order: an exchange call
\* that failed, or no open position reported for the symbol
CloseExcused ==
    events \cap {"no_position", "close_except", "outer_except", "resolver_none",
                 "notify_failed"} # {}

\* C35: a CLOSE delivered while a position is open on its symbol leads to a
\* closing order being submitted when the exchange calls succeed, whatever
\* signals were processed before it.
C35_CloseAlwaysSubmits ==
    (pc = "done" /\ delivered.signal_type = "close" /\ ~CloseExcused)
        => "closed" \in events

\* C36: every take-profit and stop-loss price the executor computes for
\* create_tp_sl_orders is strictly positive, for every signal whose present
\* prices are positive and every positive market price, buy or sell.
C36_BracketsPositive ==
    (/\ exec.rule # "none"
     /\ PresentPositive(signal.price)
     /\ PresentPositive(signal.stop_loss)
     /\ PresentPositive(signal.take_profit)
     /\ exec.current_price > 0)
        => (RPos(exec.tp_price) /\ RPos(exec.sl_price))

\* C37: the leverage the executor passes to set_leverage and puts on the
\* entry order never exceeds the configured max_leverage.
C37_LeverageCapped ==
    exec.leverage # None => exec.leverage <= config.max_leverage

\* C38: for one signal execution at most one terminal notification is sent:
\* never both trade-executed and trade-failed, never trade-failed twice,
\* whichever step fails and whichever handler catches the exception.
C38_OneNotification ==
    Len(notified) <= 1

\* a signal whose order was not filled in time has ended with its one
\* failure notification
C38_Reached ==
    /\ pc = "done"
    /\ Len(notified) = 1
    /\ "fill_timeout" \in events

\* C39: every position read of a delivery (the executor's close check
\* through get_positions, wait_for_order_fill, create_tp_sl_orders,
\* close_position) asks for the account the orders are submitted for: the
\* vault when a vault address is configured, the wallet otherwise.
C39_OneAccount ==
    events \cap {"positions_of_vault", "positions_of_wallet"}
        \subseteq {PositionsAccount(config)}

\* C40: each inbound Telegram message leads to at most one call of
\* _execute_signal: the three-attempt retry wrapper around the callback
\* never runs the pipeline again for the same message, whatever fails in
\* parsing or execution.
C40_OneExecution ==
    /\ callback.executions <= 1
    /\ callback.attempt <= 1

\* a message whose execution raised inside _handle_message has been
\* executed once, and the callback has returned
C40_Reached ==
    /\ callback.state = "idle"
    /\ callback.executions = 1
    /\ callback.caught = 1

====
